---------------------------- MODULE Spec2Model ----------------------------
(***************************************************************************)
(* LUMENYX client scripts (src/scripts): field-element codecs, the         *)
(* Poseidon-like hash, commitment / nullifier derivation, the Merkle       *)
(* accumulator (full rebuild, frontier, authentication paths), the faucet  *)
(* proof-of-work search, and the shield / unshield runs against the        *)
(* ledger.                                                                 *)
(*                                                                         *)
(* Scaling.  TLC integers are 32 bits wide, so the 254-bit BN254 modulus,  *)
(* the 32-byte buffers and the depth-20 tree are scaled down.  Every       *)
(* scaled definition keeps the name of the program constant it stands for  *)
(* and says so where it is defined:                                        *)
(*   FIELD_MODULUS, P   13 (a prime p with gcd(5, p-1) = 1, like BN254's   *)
(*                      scalar field, so x -> x^5 is a permutation)        *)
(*   BYTES_LEN          2 bytes for the 32-byte field buffers              *)
(*   TREE_DEPTH         3 levels for 20                                    *)
(*   DIRECT_MAX         2 leaves for the 1024 of the direct path           *)
(* Python lists are 0-based and TLA+ sequences 1-based: element i of a     *)
(* Python list s is s[i+1] here.                                           *)
(***************************************************************************)
EXTENDS Integers, Sequences, FiniteSets, TLC

\* shield.py:27, unshield.py:27 (scaled: a small prime with gcd(5, p-1) = 1)
FIELD_MODULUS == 13
\* get_merkle_path.py:26 (the same prime under another name)
P == 13
\* shield.py:30 (scaled from 20)
TREE_DEPTH == 3
\* get_merkle_path.py:23 (scaled from 20)
GMP_TREE_DEPTH == 3
\* shield.py:118, the largest leaf count of the direct path (scaled from 1024)
DIRECT_MAX == 2
\* shield.py:35, the width of a field buffer in bytes (scaled from 32)
BYTES_LEN == 2

----------------------------------------------------------------------------
(* Bytes and hex strings.  A hex string is [prefix, digits]: whether it    *)
(* starts with "0x", and its hex digits as numbers 0..15.  A decoder       *)
(* returns [err, val]: err = "none" and the value, or the exception.       *)

Ok(v) == [err |-> "none", val |-> v]
Raise(e) == [err |-> e, val |-> 0]

\* int.to_bytes(n, 'little')
ToBytesLE(x, n) == [i \in 1..n |-> (x \div (256 ^ (i - 1))) % 256]
\* int.to_bytes(n, 'big')
ToBytesBE(x, n) == [i \in 1..n |-> (x \div (256 ^ (n - i))) % 256]
\* bytes.hex()
BytesHex(b) ==
    [k \in 1..(2 * Len(b)) |->
        IF k % 2 = 1 THEN b[(k + 1) \div 2] \div 16 ELSE b[k \div 2] % 16]
\* bytes.fromhex(digits), for an even number of digits
BytesFromHex(digits) ==
    [i \in 1..(Len(digits) \div 2) |-> digits[2 * i - 1] * 16 + digits[2 * i]]

RECURSIVE IntFromBytesLE(_)
\* int.from_bytes(b, 'little')
IntFromBytesLE(b) ==
    IF Len(b) = 0 THEN 0 ELSE b[1] + 256 * IntFromBytesLE(Tail(b))

RECURSIVE IntFromBytesBE(_)
\* int.from_bytes(b, 'big')
IntFromBytesBE(b) ==
    IF Len(b) = 0 THEN 0
    ELSE 256 * IntFromBytesBE(SubSeq(b, 1, Len(b) - 1)) + b[Len(b)]

\* a variant of fr_to_hex_le that writes the bytes most significant first
fr_to_hex_le_bigendian(x) ==
    [prefix |-> FALSE, digits |-> BytesHex(ToBytesBE(x % FIELD_MODULUS, BYTES_LEN))]

\* shield.py:32-35, unshield.py:29-32
fr_to_hex_le(x) ==
    [prefix |-> FALSE, digits |-> BytesHex(ToBytesLE(x % FIELD_MODULUS, BYTES_LEN))]

\* shield.py:37-47, unshield.py:34-44
hex_to_fr_le(h) ==
    IF Len(h.digits) % 2 = 1 THEN Raise("ValueError")
    ELSE LET b == BytesFromHex(h.digits)
             x == IntFromBytesLE(b)
         IN IF Len(b) # BYTES_LEN THEN Raise("ValueError")
            ELSE IF x >= FIELD_MODULUS THEN Raise("ValueError")
            ELSE Ok(x)

\* shield.py:49-52, unshield.py:46-49
fr_to_h256(x) ==
    [prefix |-> TRUE, digits |-> BytesHex(ToBytesBE(x % FIELD_MODULUS, BYTES_LEN))]

\* shield.py:54-59, unshield.py:51-56
h256_to_fr(h) ==
    IF Len(h.digits) % 2 = 1 THEN Raise("ValueError")
    ELSE Ok(IntFromBytesBE(BytesFromHex(h.digits)) % FIELD_MODULUS)

RECURSIVE IntFromHexDigits(_)
\* int(h, 16) on a non-empty digit string
IntFromHexDigits(d) ==
    IF Len(d) = 0 THEN 0
    ELSE 16 * IntFromHexDigits(SubSeq(d, 1, Len(d) - 1)) + d[Len(d)]

\* get_merkle_path.py:39-43
h256_to_int(h) ==
    IF Len(h.digits) = 0 THEN Raise("ValueError") ELSE Ok(IntFromHexDigits(h.digits))

\* get_merkle_path.py:45-47
int_to_hex(value) ==
    IF value >= 256 ^ BYTES_LEN THEN Raise("OverflowError")
    ELSE [err |-> "none", val |-> 0, prefix |-> FALSE,
          digits |-> BytesHex(ToBytesBE(value, BYTES_LEN))]

----------------------------------------------------------------------------
(* The algebraic hash.                                                     *)

\* a cube in place of the fifth power: not a permutation of the field
pow5_cube(state) == (state ^ 3) % FIELD_MODULUS

\* pow(state, 5, FIELD_MODULUS), shield.py:68, unshield.py:63
pow5(state) == (state ^ 5) % FIELD_MODULUS

\* a variant of poseidon_round without the reduction after the addition of
\* the position
poseidon_round_unreduced(state, inp, i) ==
    pow5((state + inp) % FIELD_MODULUS) + i

\* shield.py:67-69: one round for the input at 1-based position i
poseidon_round(state, inp, i) ==
    (pow5((state + inp) % FIELD_MODULUS) + i) % FIELD_MODULUS

RECURSIVE poseidon_absorb(_, _, _)
poseidon_absorb(state, inputs, i) ==
    IF i > Len(inputs) THEN state
    ELSE poseidon_absorb(poseidon_round(state, inputs[i], i), inputs, i + 1)

\* shield.py:61-70
poseidon_hash(inputs) == poseidon_absorb(0, inputs, 1)

\* unshield.py:62-64: one round, the same statements as shield.py's
unshield_poseidon_round(state, inp, i) ==
    (((((state + inp) % FIELD_MODULUS) ^ 5) % FIELD_MODULUS) + i) % FIELD_MODULUS

RECURSIVE unshield_poseidon_absorb(_, _, _)
unshield_poseidon_absorb(state, inputs, i) ==
    IF i > Len(inputs) THEN state
    ELSE unshield_poseidon_absorb(
             unshield_poseidon_round(state, inputs[i], i), inputs, i + 1)

\* unshield.py:58-65
unshield_poseidon_hash(inputs) == unshield_poseidon_absorb(0, inputs, 1)

\* a variant of gmp_poseidon_round whose squarings stop at the fourth power
gmp_poseidon_round_pow4(state, inp, i) ==
    LET s  == (state + inp) % P
        x2 == (s * s) % P
        x4 == (x2 * x2) % P
    IN (x4 + i) % P

\* get_merkle_path.py:32-36: one round, the fifth power by repeated squaring
gmp_poseidon_round(state, inp, i) ==
    LET s  == (state + inp) % P
        x2 == (s * s) % P
        x4 == (x2 * x2) % P
        s5 == (x4 * s) % P
    IN (s5 + i) % P

RECURSIVE gmp_poseidon_absorb(_, _, _)
gmp_poseidon_absorb(state, inputs, i) ==
    IF i > Len(inputs) THEN state
    ELSE gmp_poseidon_absorb(gmp_poseidon_round(state, inputs[i], i), inputs, i + 1)

\* get_merkle_path.py:28-37
gmp_poseidon_hash(inputs) == gmp_poseidon_absorb(0, inputs, 1)

\* shield.py:72-74, unshield.py:67-69
poseidon_hash_pair(left, right) == poseidon_hash(<<left, right>>)

\* shield.py:76-78
compute_commitment(amount, secret, blinding) ==
    poseidon_hash(<<amount, secret, blinding>>)

\* a variant of compute_nullifier that hashes its arguments in the other order
compute_nullifier_swapped(commitment, secret) == poseidon_hash(<<secret, commitment>>)

\* shield.py:80-82
compute_nullifier(commitment, secret) == poseidon_hash(<<commitment, secret>>)

----------------------------------------------------------------------------
(* The Merkle accumulator.                                                 *)

\* a variant of PadZeros that leaves the missing leaves out
PadZeros_omitted(leaves, size) == leaves

\* leaves + [0] * (size - len(leaves)): nothing is added when size <= len
PadZeros(leaves, size) ==
    IF Len(leaves) >= size THEN leaves
    ELSE leaves \o [i \in 1..(size - Len(leaves)) |-> 0]

\* a variant of HashLevel that hashes the right child before the left one
HashLevel_swapped(level) ==
    [i \in 1..((Len(level) + 1) \div 2) |->
        poseidon_hash_pair(IF 2 * i <= Len(level) THEN level[2 * i] ELSE 0,
                           level[2 * i - 1])]

\* shield.py:100-104, unshield.py:80-84: one level up; an odd last node is
\* paired with 0
HashLevel(level) ==
    [i \in 1..((Len(level) + 1) \div 2) |->
        poseidon_hash_pair(level[2 * i - 1],
                           IF 2 * i <= Len(level) THEN level[2 * i] ELSE 0)]

RECURSIVE HashLevels(_, _)
\* shield.py:98-105: n levels up
HashLevels(level, n) == IF n = 0 THEN level ELSE HashLevels(HashLevel(level), n - 1)

\* shield.py:84-107 (new_index is not read by the code)
compute_merkle_root(leaves, new_leaf, new_index) ==
    LET all_leaves == PadZeros(leaves \o <<new_leaf>>, 2 ^ TREE_DEPTH)
        top == HashLevels(all_leaves, TREE_DEPTH)
    IN IF Len(top) > 0 THEN top[1] ELSE 0

RECURSIVE FrontierWalk(_, _, _, _)
\* shield.py:130-139: the walk of one leaf up the levels
FrontierWalk(filled, node, current_idx, level) ==
    IF level >= TREE_DEPTH THEN filled
    ELSE IF current_idx % 2 = 0
         THEN [filled EXCEPT ![level + 1] = node]
         ELSE FrontierWalk(filled, poseidon_hash_pair(filled[level + 1], node),
                           current_idx \div 2, level + 1)

\* a variant of FrontierInsert that stores every leaf at level 0 and never
\* combines it with the left sibling
FrontierInsert_level0(filled, idx, leaf) == [filled EXCEPT ![1] = leaf]

\* a variant of FrontierInsert that also stores the leaf at level 0 when the
\* walk has gone up
FrontierInsert_andLevel0(filled, idx, leaf) ==
    [FrontierWalk(filled, leaf, idx, 0) EXCEPT ![1] = leaf]

\* shield.py:126-139: one iteration of the insertion loop
FrontierInsert(filled, idx, leaf) == FrontierWalk(filled, leaf, idx, 0)

RECURSIVE ZeroHash(_)
\* shield.py:152-154
ZeroHash(level) ==
    IF level = 0 THEN 0
    ELSE LET z == ZeroHash(level - 1) IN poseidon_hash_pair(z, z)

RECURSIVE FrontierFold(_, _, _)
\* shield.py:143-155; node = -1 stands for None
FrontierFold(filled, node, level) ==
    IF level >= TREE_DEPTH THEN node
    ELSE LET level_node == IF filled[level + 1] # 0 THEN filled[level + 1] ELSE -1
             next == IF node = -1 THEN level_node
                     ELSE IF level_node # -1
                          THEN poseidon_hash_pair(level_node, node)
                          ELSE poseidon_hash_pair(ZeroHash(level), node)
         IN FrontierFold(filled, next, level + 1)

\* shield.py:141-157
FrontierRoot(filled) ==
    LET node == FrontierFold(filled, -1, 0)
    IN IF node = -1 \/ node = 0 THEN 0 ELSE node

RECURSIVE FrontierAfter(_, _, _)
\* shield.py:124-139: the frontier after the leaves from index idx on
FrontierAfter(filled, all_commitments, idx) ==
    IF idx >= Len(all_commitments) THEN filled
    ELSE FrontierAfter(FrontierInsert(filled, idx, all_commitments[idx + 1]),
                       all_commitments, idx + 1)

\* shield.py:109-157
compute_merkle_root_incremental(existing_commitments, new_commitment) ==
    IF Len(existing_commitments) + 1 <= DIRECT_MAX
    THEN compute_merkle_root(existing_commitments, new_commitment,
                             Len(existing_commitments))
    ELSE FrontierRoot(FrontierAfter([l \in 1..TREE_DEPTH |-> 0],
                                    existing_commitments \o <<new_commitment>>, 0))

RECURSIVE BuildLevels(_)
\* unshield.py:79-86, get_merkle_path.py:54-61
BuildLevels(tree) ==
    LET current == tree[Len(tree)]
    IN IF Len(current) > 1 THEN BuildLevels(Append(tree, HashLevel(current)))
       ELSE tree

\* unshield.py:71-88
build_merkle_tree(leaves, depth) == BuildLevels(<<PadZeros(leaves, 2 ^ depth)>>)

\* get_merkle_path.py:49-63 (the caller pads the leaves)
gmp_build_merkle_tree(leaves) == BuildLevels(<<leaves>>)

RECURSIVE PathWalk(_, _, _, _)
\* unshield.py:96-102, get_merkle_path.py:71-77
PathWalk(tree, k, idx, acc) ==
    IF k >= Len(tree) THEN acc
    ELSE LET level == tree[k]
             is_right == (idx % 2 = 1)
             sibling_idx == IF is_right THEN idx - 1 ELSE idx + 1
             sibling == IF sibling_idx < Len(level) THEN level[sibling_idx + 1] ELSE 0
         IN PathWalk(tree, k + 1, idx \div 2,
                     [path |-> Append(acc.path, sibling),
                      indices |-> Append(acc.indices, is_right)])

\* unshield.py:90-104, get_merkle_path.py:65-79
get_merkle_path(tree, leaf_index) ==
    PathWalk(tree, 1, leaf_index, [path |-> <<>>, indices |-> <<>>])

----------------------------------------------------------------------------
(* The faucet proof of work.                                               *)

\* faucet_pow.py:50, the digest width in bytes (scaled from 32)
DIGEST_LEN == 2
\* faucet_pow.py:72, the nonce width in bytes (scaled from 8)
NONCE_LEN == 2

(* hashlib.blake2b, computed on 64-bit words held as 16-bit limbs.          *)

\* x XOR y for x, y in 0..15, at [x + 1][y + 1]
XorNibble ==
    <<<<0, 1, 2, 3, 4, 5, 6, 7, 8, 9, 10, 11, 12, 13, 14, 15>>,
      <<1, 0, 3, 2, 5, 4, 7, 6, 9, 8, 11, 10, 13, 12, 15, 14>>,
      <<2, 3, 0, 1, 6, 7, 4, 5, 10, 11, 8, 9, 14, 15, 12, 13>>,
      <<3, 2, 1, 0, 7, 6, 5, 4, 11, 10, 9, 8, 15, 14, 13, 12>>,
      <<4, 5, 6, 7, 0, 1, 2, 3, 12, 13, 14, 15, 8, 9, 10, 11>>,
      <<5, 4, 7, 6, 1, 0, 3, 2, 13, 12, 15, 14, 9, 8, 11, 10>>,
      <<6, 7, 4, 5, 2, 3, 0, 1, 14, 15, 12, 13, 10, 11, 8, 9>>,
      <<7, 6, 5, 4, 3, 2, 1, 0, 15, 14, 13, 12, 11, 10, 9, 8>>,
      <<8, 9, 10, 11, 12, 13, 14, 15, 0, 1, 2, 3, 4, 5, 6, 7>>,
      <<9, 8, 11, 10, 13, 12, 15, 14, 1, 0, 3, 2, 5, 4, 7, 6>>,
      <<10, 11, 8, 9, 14, 15, 12, 13, 2, 3, 0, 1, 6, 7, 4, 5>>,
      <<11, 10, 9, 8, 15, 14, 13, 12, 3, 2, 1, 0, 7, 6, 5, 4>>,
      <<12, 13, 14, 15, 8, 9, 10, 11, 4, 5, 6, 7, 0, 1, 2, 3>>,
      <<13, 12, 15, 14, 9, 8, 11, 10, 5, 4, 7, 6, 1, 0, 3, 2>>,
      <<14, 15, 12, 13, 10, 11, 8, 9, 6, 7, 4, 5, 2, 3, 0, 1>>,
      <<15, 14, 13, 12, 11, 10, 9, 8, 7, 6, 5, 4, 3, 2, 1, 0>>>>

\* x XOR y for x, y below 2^16
Xor16(x, y) ==
    XorNibble[(x % 16) + 1][(y % 16) + 1]
    + 16 * XorNibble[((x \div 16) % 16) + 1][((y \div 16) % 16) + 1]
    + 256 * XorNibble[((x \div 256) % 16) + 1][((y \div 256) % 16) + 1]
    + 4096 * XorNibble[(x \div 4096) + 1][(y \div 4096) + 1]

\* a 64-bit word is its four 16-bit limbs, the least significant first
WordXor(a, b) ==
    <<Xor16(a[1], b[1]), Xor16(a[2], b[2]), Xor16(a[3], b[3]), Xor16(a[4], b[4])>>

\* the limbs of a sum from the sums of the limbs
WordCarry(s1, s2, s3, s4) ==
    <<s1 % 65536,
      (s2 + (s1 \div 65536)) % 65536,
      (s3 + ((s2 + (s1 \div 65536)) \div 65536)) % 65536,
      (s4 + ((s3 + ((s2 + (s1 \div 65536)) \div 65536)) \div 65536)) % 65536>>

\* a + b modulo 2^64
WordAdd(a, b) == WordCarry(a[1] + b[1], a[2] + b[2], a[3] + b[3], a[4] + b[4])

\* a + b + c modulo 2^64
WordAdd3(a, b, c) ==
    WordCarry(a[1] + b[1] + c[1], a[2] + b[2] + c[2], a[3] + b[3] + c[3],
              a[4] + b[4] + c[4])

\* the rotations of BLAKE2b: to the right by 32, 24, 16 and 63 bits
Rotr32(w) == <<w[3], w[4], w[1], w[2]>>
Rotr24(w) ==
    <<(w[2] \div 256) + (w[3] % 256) * 256, (w[3] \div 256) + (w[4] % 256) * 256,
      (w[4] \div 256) + (w[1] % 256) * 256, (w[1] \div 256) + (w[2] % 256) * 256>>
Rotr16(w) == <<w[2], w[3], w[4], w[1]>>
Rotr63(w) ==
    <<((w[1] * 2) % 65536) + (w[4] \div 32768),
      ((w[2] * 2) % 65536) + (w[1] \div 32768),
      ((w[3] * 2) % 65536) + (w[2] \div 32768),
      ((w[4] * 2) % 65536) + (w[3] \div 32768)>>

\* the initialization vector of BLAKE2b
BLAKE2B_IV ==
    <<<<51464, 62396, 58983, 27145>>,
      <<42811, 33994, 44677, 47975>>,
      <<63531, 65172, 62322, 15470>>,
      <<14065, 24349, 62778, 42319>>,
      <<33489, 44518, 21119, 20750>>,
      <<27679, 11070, 26764, 39685>>,
      <<48491, 64321, 55723, 8067>>,
      <<8569, 4990, 52505, 23520>>>>

\* the message schedule of BLAKE2b, word numbers from 0
BLAKE2B_SIGMA ==
    <<<<0, 1, 2, 3, 4, 5, 6, 7, 8, 9, 10, 11, 12, 13, 14, 15>>,
      <<14, 10, 4, 8, 9, 15, 13, 6, 1, 12, 0, 2, 11, 7, 5, 3>>,
      <<11, 8, 12, 0, 5, 2, 15, 13, 10, 14, 3, 6, 7, 1, 9, 4>>,
      <<7, 9, 3, 1, 13, 12, 11, 14, 2, 6, 5, 10, 4, 0, 15, 8>>,
      <<9, 0, 5, 7, 2, 4, 10, 15, 14, 1, 11, 12, 6, 8, 3, 13>>,
      <<2, 12, 6, 10, 0, 11, 8, 3, 4, 13, 7, 5, 15, 14, 1, 9>>,
      <<12, 5, 1, 15, 14, 13, 4, 10, 0, 7, 6, 3, 9, 2, 8, 11>>,
      <<13, 11, 7, 14, 12, 1, 3, 9, 5, 0, 15, 4, 8, 6, 2, 10>>,
      <<6, 15, 14, 9, 11, 3, 0, 8, 12, 2, 13, 7, 1, 4, 10, 5>>,
      <<10, 2, 8, 4, 7, 6, 1, 5, 15, 11, 9, 14, 3, 12, 13, 0>>>>

\* the mixing function G of BLAKE2b on the words a, b, c, d with the message
\* words x, y, one assignment of G after the other
MixG8(a, b, c, d) == <<a, Rotr63(WordXor(b, c)), c, d>>
MixG7(a, b, c, d) == MixG8(a, b, WordAdd(c, d), d)
MixG6(a, b, c, d) == MixG7(a, b, c, Rotr16(WordXor(d, a)))
MixG5(a, b, c, d, y) == MixG6(WordAdd3(a, b, y), b, c, d)
MixG4(a, b, c, d, y) == MixG5(a, Rotr24(WordXor(b, c)), c, d, y)
MixG3(a, b, c, d, y) == MixG4(a, b, WordAdd(c, d), d, y)
MixG2(a, b, c, d, y) == MixG3(a, b, c, Rotr32(WordXor(d, a)), y)
MixG(a, b, c, d, x, y) == MixG2(WordAdd3(a, b, x), b, c, d, y)

\* v with a, b, c, d (numbered from 0) set to the four words of r
MixStore(v, a, b, c, d, r) ==
    [v EXCEPT ![a + 1] = r[1], ![b + 1] = r[2], ![c + 1] = r[3], ![d + 1] = r[4]]

\* G applied to v[a], v[b], v[c], v[d]
Mix(v, a, b, c, d, x, y) ==
    MixStore(v, a, b, c, d, MixG(v[a + 1], v[b + 1], v[c + 1], v[d + 1], x, y))

\* one round of the compression function with the schedule s
Blake2Round(v, m, s) ==
    Mix(Mix(Mix(Mix(Mix(Mix(Mix(Mix(v,
        0, 4, 8, 12, m[s[1] + 1], m[s[2] + 1]),
        1, 5, 9, 13, m[s[3] + 1], m[s[4] + 1]),
        2, 6, 10, 14, m[s[5] + 1], m[s[6] + 1]),
        3, 7, 11, 15, m[s[7] + 1], m[s[8] + 1]),
        0, 5, 10, 15, m[s[9] + 1], m[s[10] + 1]),
        1, 6, 11, 12, m[s[11] + 1], m[s[12] + 1]),
        2, 7, 8, 13, m[s[13] + 1], m[s[14] + 1]),
        3, 4, 9, 14, m[s[15] + 1], m[s[16] + 1])

RECURSIVE Blake2Rounds(_, _, _)
\* the twelve rounds, on the sixteen words of v
Blake2Rounds(v, m, i) ==
    IF Len(v) # 16 \/ i = 12 THEN v
    ELSE Blake2Rounds(Blake2Round(v, m, BLAKE2B_SIGMA[(i % 10) + 1]), m, i + 1)

\* h XOR the two halves of v
Blake2Fold(h, v) ==
    <<WordXor(WordXor(h[1], v[1]), v[9]), WordXor(WordXor(h[2], v[2]), v[10]),
      WordXor(WordXor(h[3], v[3]), v[11]), WordXor(WordXor(h[4], v[4]), v[12]),
      WordXor(WordXor(h[5], v[5]), v[13]), WordXor(WordXor(h[6], v[6]), v[14]),
      WordXor(WordXor(h[7], v[7]), v[15]), WordXor(WordXor(h[8], v[8]), v[16])>>

\* the compression function F: state h, message words m, byte count t
\* (below 2^31), last-block flag
Blake2Compress(h, m, t, last) ==
    Blake2Fold(h, Blake2Rounds(
        <<h[1], h[2], h[3], h[4], h[5], h[6], h[7], h[8],
          BLAKE2B_IV[1], BLAKE2B_IV[2], BLAKE2B_IV[3], BLAKE2B_IV[4],
          WordXor(BLAKE2B_IV[5], <<t % 65536, t \div 65536, 0, 0>>),
          BLAKE2B_IV[6],
          IF last THEN WordXor(BLAKE2B_IV[7], <<65535, 65535, 65535, 65535>>)
          ELSE BLAKE2B_IV[7],
          BLAKE2B_IV[8]>>,
        m, 0))

\* the byte at position k (from 0) of data, 0 past its end
ByteAt(data, k) == IF k < Len(data) THEN data[k + 1] ELSE 0

\* the 16-bit limb of data at byte k
LimbAt(data, k) == ByteAt(data, k) + 256 * ByteAt(data, k + 1)

\* the 64-bit word of data at byte k, little-endian
WordAt(data, k) ==
    <<LimbAt(data, k), LimbAt(data, k + 2), LimbAt(data, k + 4), LimbAt(data, k + 6)>>

\* the sixteen message words of the block of data that starts at byte off
Blake2Block(data, off) ==
    <<WordAt(data, off), WordAt(data, off + 8), WordAt(data, off + 16),
      WordAt(data, off + 24), WordAt(data, off + 32), WordAt(data, off + 40),
      WordAt(data, off + 48), WordAt(data, off + 56), WordAt(data, off + 64),
      WordAt(data, off + 72), WordAt(data, off + 80), WordAt(data, off + 88),
      WordAt(data, off + 96), WordAt(data, off + 104), WordAt(data, off + 112),
      WordAt(data, off + 120)>>

RECURSIVE Blake2Blocks(_, _, _)
\* the blocks of data from byte off on, compressed into h
Blake2Blocks(h, data, off) ==
    IF Len(data) - off <= 128
    THEN Blake2Compress(h, Blake2Block(data, off), Len(data), TRUE)
    ELSE Blake2Blocks(Blake2Compress(h, Blake2Block(data, off), off + 128, FALSE),
                      data, off + 128)

\* faucet_pow.py:50: hashlib.blake2b(data, digest_size=nn).digest(), BLAKE2b
\* of RFC 7693 without a key, for nn <= 64
blake2b(data, nn) ==
    LET h == Blake2Blocks(
                 [BLAKE2B_IV EXCEPT ![1] = WordXor(BLAKE2B_IV[1], <<nn, 257, 0, 0>>)],
                 data, 0)
    IN [k \in 1..nn |->
           LET limb == h[((k - 1) \div 8) + 1][(((k - 1) % 8) \div 2) + 1]
           IN IF (k - 1) % 2 = 0 THEN limb % 256 ELSE limb \div 256]

\* faucet_pow.py:48-50: blake2b(data, digest_size).digest(), with the digest
\* width scaled to DIGEST_LEN bytes
blake2_256(data) == blake2b(data, DIGEST_LEN)

RECURSIVE bit_length(_)
\* int.bit_length()
bit_length(n) == IF n = 0 THEN 0 ELSE 1 + bit_length(n \div 2)

RECURSIVE ZeroBitsLoop(_, _, _)
\* faucet_pow.py:56-61, become_validator.py:94-99, claim_faucet.py:36-41
ZeroBitsLoop(hash_bytes, i, zeros) ==
    IF i > Len(hash_bytes) THEN zeros
    ELSE IF hash_bytes[i] = 0 THEN ZeroBitsLoop(hash_bytes, i + 1, zeros + 8)
    ELSE zeros + (8 - bit_length(hash_bytes[i]))

\* the loop without its break: it goes on after the first nonzero byte
count_leading_zero_bits_nobreak(hash_bytes) ==
    LET F[i \in 0..Len(hash_bytes)] ==
            IF i = 0 THEN 0
            ELSE IF hash_bytes[i] = 0 THEN F[i - 1] + 8
            ELSE F[i - 1] + (8 - bit_length(hash_bytes[i]))
    IN F[Len(hash_bytes)]

\* faucet_pow.py:53-62
count_leading_zero_bits(hash_bytes) == ZeroBitsLoop(hash_bytes, 1, 0)

\* become_validator.py:92-99
bv_leading_zeros(hash_result) == ZeroBitsLoop(hash_result, 1, 0)

\* claim_faucet.py:35-41
cf_leading_zeros(hash_result) == ZeroBitsLoop(hash_result, 1, 0)

\* the nonce appended big-endian
pow_data_be(account_bytes, nonce) == account_bytes \o ToBytesBE(nonce, NONCE_LEN)

\* faucet_pow.py:72, become_validator.py:89, claim_faucet.py:33
pow_data(account_bytes, nonce) == account_bytes \o ToBytesLE(nonce, NONCE_LEN)

\* faucet_pow.py:72-76: the digest of one nonce and whether it meets the
\* difficulty
faucet_pow_try(account_bytes, nonce, difficulty) ==
    LET hash_result == blake2_256(pow_data(account_bytes, nonce))
    IN [hash |-> hash_result,
        found |-> count_leading_zero_bits(hash_result) >= difficulty]

\* become_validator.py:89-101
bv_pow_try(public_key, nonce, difficulty) ==
    LET hash_result == blake2_256(pow_data(public_key, nonce))
    IN [hash |-> hash_result,
        found |-> bv_leading_zeros(hash_result) >= difficulty]

\* claim_faucet.py:33-42
cf_pow_try(account_bytes, nonce, difficulty) ==
    LET hash_result == blake2_256(pow_data(account_bytes, nonce))
    IN [hash |-> hash_result,
        found |-> cf_leading_zeros(hash_result) >= difficulty]

----------------------------------------------------------------------------
(* State.                                                                  *)

VARIABLES
    \* the Merkle functions applied to one leaf list
    m_existing,     \* existing_commitments
    m_new,          \* new_commitment
    m_pc,           \* position: "idle", "loop", "inc_done", "tree", "path",
                    \* and "gmp_path", "gmp_exit1" for get_merkle_path.py
    m_filled,       \* filled_subtrees of the frontier loop
    m_idx,          \* idx of the frontier loop: leaves inserted so far
    m_inc_root,     \* what compute_merkle_root_incremental returned
    m_full,         \* whether compute_merkle_root has returned
    m_full_root,    \* what compute_merkle_root returned
    m_tree,         \* what build_merkle_tree returned
    m_leaf_index,   \* the leaf_index given to get_merkle_path
    m_path,         \* what get_merkle_path returned
    m_out           \* the output file of get_merkle_path.py: <<>> or <<file>>

m_vars == <<m_existing, m_new, m_pc, m_filled, m_idx, m_inc_root, m_full,
            m_full_root, m_tree, m_leaf_index, m_path, m_out>>

VARIABLES
    \* the three poseidon_hash implementations applied to one input list
    h_inputs,       \* inputs
    h_pc,           \* "off" or "ready"
    h_out           \* what each implementation returned, by its file

h_vars == <<h_inputs, h_pc, h_out>>

VARIABLES
    \* the codecs applied to one field element or one hex string
    c_x,            \* the integer given to an encoder
    c_hex,          \* the hex string: given, or returned by the encoder
    c_src,          \* where c_hex is from: "x" (not encoded yet), "input",
                    \* or the encoder that returned it
    c_dec,          \* the decoder applied to c_hex, "none" before
    c_res           \* what the decoder returned

c_vars == <<c_x, c_hex, c_src, c_dec, c_res>>

VARIABLES
    \* the three find_pow copies applied to one public key and difficulty
    p_pub,          \* account_bytes / public_key
    p_diff,         \* difficulty
    p_run,          \* the copy whose loop is running, "none" between calls
    p_nonce,        \* nonce of the running loop
    p_ret           \* what each copy returned, by its file: [nonce, hash]

p_vars == <<p_pub, p_diff, p_run, p_nonce, p_ret>>

VARIABLES
    \* count_leading_zero_bits applied to one byte string
    z_bytes,        \* hash_bytes
    z_pc,           \* "off", "ready" or "done"
    z_out           \* what it returned

z_vars == <<z_bytes, z_pc, z_out>>

VARIABLES
    \* the ledger (the Privacy pallet's storage) and the client's files
    l_commitments,  \* Commitments, by index; NextIndex / NoteCount its length
    l_root,         \* CurrentMerkleRoot: <<>> when unset, else <<H256>>
    l_spent,        \* SpentNullifiers: the nullifiers recorded as spent
    notes           \* ~/.lumenyx-notes: note_<leaf_index>.json by leaf_index

l_vars == <<l_commitments, l_root, l_spent, notes>>

VARIABLES
    \* the runs of shield.py, by run
    s_pc,           \* "start", "fetch", "submit", "save", "done", or after
                    \* sys.exit(1): "exit1_start", "exit1_tx"
    s_amount,       \* amount_raw
    s_secret,       \* secret
    s_blinding,     \* blinding
    s_commitment,   \* commitment
    s_existing,     \* existing_commitments
    s_root,         \* new_merkle_root
    s_receipt       \* receipt: <<>> before the submission and when it
                    \* raised, else <<receipt>>

s_vars == <<s_pc, s_amount, s_secret, s_blinding, s_commitment, s_existing,
            s_root, s_receipt>>

VARIABLES
    \* the runs of unshield.py, by run
    u_pc,           \* "start", "fetch", "root", "spent", "zk", "prove",
                    \* "submit", "done", after sys.exit(1) "exit1_start",
                    \* "exit1_spent", "exit1_cli", "exit1_prover" or
                    \* "exit1_tx", and "crash" after an uncaught exception
    u_note,         \* the note as loaded: <<>> before, else <<note>>
    u_secret,       \* secret, decoded from the note
    u_blinding,     \* blinding, decoded from the note
    u_root,         \* root, of the tree built from the ledger's commitments
    u_path,         \* path and indices of the note's leaf
    u_mismatch,     \* whether the root mismatch warning was printed
    u_nullifier,    \* nullifier
    u_tmp,          \* the temporary merkle path file: "none" before it is
                    \* written, <<contents>> while it exists, "deleted" after
    u_zk_calls,     \* the invocations of lumenyx-zk prove-unshield
    u_result,       \* result of subprocess.run: <<>> before the call and
                    \* when it raised, else <<result>>
    u_proof,        \* proof_hex: "none" or the proof
    u_tx            \* the unshield call submitted: <<>> or <<call_params>>

u_vars == <<u_pc, u_note, u_secret, u_blinding, u_root, u_path, u_mismatch,
            u_nullifier, u_tmp, u_zk_calls, u_result, u_proof, u_tx>>

VARIABLES
    \* the two-commitment scenario: a tree of depth 2 over A and B
    d_a,            \* the commitment inserted first
    d_b,            \* the commitment inserted second
    d_pc,           \* "off", "fetch", "tree" or "path"
    d_leaves,       \* commitments, as downloaded so far
    d_tree,         \* what build_merkle_tree returned
    d_path          \* what get_merkle_path returned for leaf 0

d_vars == <<d_a, d_b, d_pc, d_leaves, d_tree, d_path>>

VARIABLES
    \* become_validator.py, and the chain state of the run's account
    v_pc,           \* "off", "connect", "keys", "faucet", "claim" (before
                    \* the claim is submitted), "verify" (in time.sleep(1)),
                    \* "session", "rotate" (before author_rotateKeys),
                    \* "banner", "done" (the success banner was printed),
                    \* "exit1"
    v_is_local,     \* is_local: whether the local node answered
    v_key_file,     \* ~/.lumenyx-validator-key: "none", "valid" or "invalid"
    v_balance,      \* System.Account free balance of the account
    v_claimed,      \* whether the faucet recorded a claim for the account
    v_next_keys,    \* whether Session.NextKeys holds keys for the account
    v_runs,         \* how many times the script was started
    v_sk_pc,        \* set_keys.py: "off", "idle", "keys" (before
                    \* author_rotateKeys), "done", "exit1"
    v_sk_runs       \* how many times set_keys.py was started

v_vars == <<v_pc, v_is_local, v_key_file, v_balance, v_claimed, v_next_keys,
            v_runs, v_sk_pc, v_sk_runs>>

vars == <<m_vars, h_vars, c_vars, p_vars, z_vars, l_vars, s_vars, u_vars, d_vars, v_vars>>

\* what the steps of one part leave alone: the other parts
m_others == <<h_vars, c_vars, p_vars, z_vars, l_vars, s_vars, u_vars, d_vars, v_vars>>
h_others == <<m_vars, c_vars, p_vars, z_vars, l_vars, s_vars, u_vars, d_vars, v_vars>>
c_others == <<m_vars, h_vars, p_vars, z_vars, l_vars, s_vars, u_vars, d_vars, v_vars>>
p_others == <<m_vars, h_vars, c_vars, z_vars, l_vars, s_vars, u_vars, d_vars, v_vars>>
z_others == <<m_vars, h_vars, c_vars, p_vars, l_vars, s_vars, u_vars, d_vars, v_vars>>
sys_others == <<m_vars, h_vars, c_vars, p_vars, z_vars, d_vars, v_vars>>
d_others == <<m_vars, h_vars, c_vars, p_vars, z_vars, l_vars, s_vars, u_vars, v_vars>>
v_others == <<m_vars, h_vars, c_vars, p_vars, z_vars, l_vars, s_vars, u_vars, d_vars>>

----------------------------------------------------------------------------
(* Bounds of the inputs.                                                   *)

\* the ledger holds at most MaxExisting commitments before the insertion:
\* with 2 ^ TREE_DEPTH of them the new leaf is the first past the capacity
MaxExisting == 8

\* leaves and new commitments are drawn from LeafVals
LeafVals == {0, 1}

\* hash inputs are drawn from 0..MaxHashInput (beyond the modulus), in lists
\* of at most MaxHashLen
MaxHashInput == 14
MaxHashLen == 3

\* hex strings given to the decoders have at most MaxHexLen digits, drawn from
\* HexDigitSample: 0x0c is the largest field element, 0x0d the modulus
MaxHexLen == 5
HexDigitSample == {0, 1, 12, 13, 15}

\* the commitments of the two-commitment scenario: 0..MaxScenarioLeaf, every
\* field element
MaxScenarioLeaf == 12

\* become_validator.py is started at most MaxValidatorRuns times
MaxValidatorRuns == 2
\* set_keys.py is started at most MaxSetKeysRuns times
MaxSetKeysRuns == 1
\* transfer.py pays the account while its balance stays within MaxBalance
MaxBalance == 12
\* transfer.py:22, in LUMENYX
AMOUNT == 10
\* what the faucet pays for a claim, in LUMENYX (become_validator.py:113)
FAUCET_AMOUNT == 2

\* integers given to the encoders: 0..MaxEncInput (beyond the modulus)
MaxEncInput == 27

\* difficulties 0..MaxDifficulty; a search is followed up to nonce MaxNonce
MaxDifficulty == 5
MaxNonce == 60
PubKeys == {<<0, 0>>, <<1, 2>>, <<255, 7>>, <<16, 128>>}

\* byte strings given to count_leading_zero_bits: at most MaxClzLen bytes out
\* of ByteSample (each bit length 0..8 twice)
MaxClzLen == 3
ByteSample == {0, 1, 2, 3, 4, 7, 8, 15, 16, 31, 32, 63, 64, 127, 128, 255}

\* the runs of shield.py and unshield.py, and what shield.py draws from
ShieldRuns == {"s1", "s2"}
UnshieldRuns == {"u1", "u2"}
Amounts == {3, 15}
SecretVals == {5, 12}
BlindingVals == {7}

\* all sequences over S of length n
SeqsOfLen(S, n) == [1..n -> S]

\* all sequences over S of length lo..hi
SeqsUpTo(S, lo, hi) == UNION {SeqsOfLen(S, n) : n \in lo..hi}

\* the committed leaves of the run: all_commitments (shield.py:115)
MAllLeaves == m_existing \o <<m_new>>

----------------------------------------------------------------------------
(* poseidon_hash of shield.py, unshield.py and get_merkle_path.py, applied *)
(* to one input list.                                                      *)

HashFiles == {"shield", "unshield", "get_merkle_path"}

HashIdle ==
    /\ h_inputs = <<>>
    /\ h_pc = "off"
    /\ h_out = <<>>

HashInit ==
    /\ h_inputs \in SeqsUpTo(0..MaxHashInput, 0, MaxHashLen)
    /\ h_pc = "ready"
    /\ h_out = [f \in {} |-> 0]

\* shield.py:61-70
HashShield ==
    /\ h_pc = "ready"
    /\ "shield" \notin DOMAIN h_out
    /\ h_out' = h_out @@ ("shield" :> poseidon_hash(h_inputs))
    /\ UNCHANGED <<h_inputs, h_pc>>
    /\ UNCHANGED h_others

\* unshield.py:58-65
HashUnshield ==
    /\ h_pc = "ready"
    /\ "unshield" \notin DOMAIN h_out
    /\ h_out' = h_out @@ ("unshield" :> unshield_poseidon_hash(h_inputs))
    /\ UNCHANGED <<h_inputs, h_pc>>
    /\ UNCHANGED h_others

\* get_merkle_path.py:28-37
HashGetMerklePath ==
    /\ h_pc = "ready"
    /\ "get_merkle_path" \notin DOMAIN h_out
    /\ h_out' = h_out @@ ("get_merkle_path" :> gmp_poseidon_hash(h_inputs))
    /\ UNCHANGED <<h_inputs, h_pc>>
    /\ UNCHANGED h_others

HashNext ==
    \/ HashShield
    \/ HashUnshield
    \/ HashGetMerklePath

----------------------------------------------------------------------------
(* The codecs, applied to one integer (encode, then decode what the        *)
(* encoder returned) or to one given hex string (decode).                  *)

HexInputs ==
    {[prefix |-> pre, digits |-> d] :
        pre \in BOOLEAN, d \in SeqsUpTo(HexDigitSample, 0, MaxHexLen)}

CodecIdle ==
    /\ c_x = 0
    /\ c_hex = [prefix |-> FALSE, digits |-> <<>>]
    /\ c_src = "off"
    /\ c_dec = "none"
    /\ c_res = Ok(0)

CodecInit ==
    /\ \/ /\ c_src = "x"
          /\ c_x \in 0..MaxEncInput
          /\ c_hex = [prefix |-> FALSE, digits |-> <<>>]
       \/ /\ c_src = "input"
          /\ c_x = 0
          /\ c_hex \in HexInputs
    /\ c_dec = "none"
    /\ c_res = Ok(0)

\* shield.py:32-35
EncodeLE ==
    /\ c_src = "x"
    /\ c_hex' = fr_to_hex_le(c_x)
    /\ c_src' = "fr_to_hex_le"
    /\ UNCHANGED <<c_x, c_dec, c_res>>
    /\ UNCHANGED c_others

\* shield.py:49-52
EncodeH256 ==
    /\ c_src = "x"
    /\ c_hex' = fr_to_h256(c_x)
    /\ c_src' = "fr_to_h256"
    /\ UNCHANGED <<c_x, c_dec, c_res>>
    /\ UNCHANGED c_others

\* shield.py:37-47
DecodeLE ==
    /\ c_src \notin {"off", "x"}
    /\ c_dec = "none"
    /\ c_res' = hex_to_fr_le(c_hex)
    /\ c_dec' = "hex_to_fr_le"
    /\ UNCHANGED <<c_x, c_hex, c_src>>
    /\ UNCHANGED c_others

\* shield.py:54-59
DecodeH256 ==
    /\ c_src \notin {"off", "x"}
    /\ c_dec = "none"
    /\ c_res' = h256_to_fr(c_hex)
    /\ c_dec' = "h256_to_fr"
    /\ UNCHANGED <<c_x, c_hex, c_src>>
    /\ UNCHANGED c_others

\* get_merkle_path.py:39-43
DecodeInt ==
    /\ c_src \notin {"off", "x"}
    /\ c_dec = "none"
    /\ c_res' = h256_to_int(c_hex)
    /\ c_dec' = "h256_to_int"
    /\ UNCHANGED <<c_x, c_hex, c_src>>
    /\ UNCHANGED c_others

CodecNext ==
    \/ EncodeLE
    \/ EncodeH256
    \/ DecodeLE
    \/ DecodeH256
    \/ DecodeInt

----------------------------------------------------------------------------
(* The ledger, and the runs of shield.py and unshield.py against it.       *)

\* a function f with f[k] set to v, k added to its domain if new
Put(f, k, v) == [i \in DOMAIN f \cup {k} |-> IF i = k THEN v ELSE f[i]]

SystemIdle ==
    /\ l_commitments = <<>>
    /\ l_root = <<>>
    /\ l_spent = {}
    /\ notes = <<>>
    /\ s_pc = <<>>
    /\ s_amount = <<>>
    /\ s_secret = <<>>
    /\ s_blinding = <<>>
    /\ s_commitment = <<>>
    /\ s_existing = <<>>
    /\ s_root = <<>>
    /\ s_receipt = <<>>
    /\ u_pc = <<>>
    /\ u_note = <<>>
    /\ u_secret = <<>>
    /\ u_blinding = <<>>
    /\ u_root = <<>>
    /\ u_path = <<>>
    /\ u_mismatch = <<>>
    /\ u_nullifier = <<>>
    /\ u_tmp = <<>>
    /\ u_zk_calls = <<>>
    /\ u_result = <<>>
    /\ u_proof = <<>>
    /\ u_tx = <<>>

\* the commitments other clients shielded before the runs: none, or two
\* (with the root their shield calls left)
InitialLedgers ==
    {[commitments |-> <<>>, root |-> <<>>],
     [commitments |-> <<fr_to_h256(4), fr_to_h256(9)>>,
      root |-> <<fr_to_h256(compute_merkle_root(<<4>>, 9, 1))>>]}

SystemInit ==
    /\ \E l \in InitialLedgers :
          /\ l_commitments = l.commitments
          /\ l_root = l.root
    /\ l_spent = {}
    /\ notes = [i \in {} |-> 0]
    /\ s_pc = [r \in ShieldRuns |-> "start"]
    /\ s_amount = [r \in ShieldRuns |-> 0]
    /\ s_secret = [r \in ShieldRuns |-> 0]
    /\ s_blinding = [r \in ShieldRuns |-> 0]
    /\ s_commitment = [r \in ShieldRuns |-> 0]
    /\ s_existing = [r \in ShieldRuns |-> <<>>]
    /\ s_root = [r \in ShieldRuns |-> 0]
    /\ s_receipt = [r \in ShieldRuns |-> <<>>]
    /\ u_pc = [u \in UnshieldRuns |-> "start"]
    /\ u_note = [u \in UnshieldRuns |-> <<>>]
    /\ u_secret = [u \in UnshieldRuns |-> 0]
    /\ u_blinding = [u \in UnshieldRuns |-> 0]
    /\ u_root = [u \in UnshieldRuns |-> 0]
    /\ u_path = [u \in UnshieldRuns |-> [path |-> <<>>, indices |-> <<>>]]
    /\ u_mismatch = [u \in UnshieldRuns |-> FALSE]
    /\ u_nullifier = [u \in UnshieldRuns |-> 0]
    /\ u_tmp = [u \in UnshieldRuns |-> "none"]
    /\ u_zk_calls = [u \in UnshieldRuns |-> 0]
    /\ u_result = [u \in UnshieldRuns |-> <<>>]
    /\ u_proof = [u \in UnshieldRuns |-> "none"]
    /\ u_tx = [u \in UnshieldRuns |-> <<>>]

\* shield.py:159-175.  The ledger only appends to Commitments, so the reads
\* of NextIndex and then of each Commitments[i] see one prefix of the list.
get_existing_commitments ==
    [i \in 1..Len(l_commitments) |-> h256_to_fr(l_commitments[i]).val]

\* shield.py:191-227: connect, check the balance, draw the secrets, compute
\* the commitment
ShieldStart(r) ==
    /\ s_pc[r] = "start"
    /\ \/ \* the connection fails, or the balance is insufficient
          /\ s_pc' = [s_pc EXCEPT ![r] = "exit1_start"]
          /\ UNCHANGED <<s_amount, s_secret, s_blinding, s_commitment>>
       \/ \E amount_raw \in Amounts, secret \in SecretVals,
             blinding \in BlindingVals :
             /\ s_amount' = [s_amount EXCEPT ![r] = amount_raw]
             /\ s_secret' = [s_secret EXCEPT ![r] = secret]
             /\ s_blinding' = [s_blinding EXCEPT ![r] = blinding]
             /\ s_commitment' = [s_commitment EXCEPT ![r] =
                    compute_commitment(amount_raw, secret, blinding)]
             /\ s_pc' = [s_pc EXCEPT ![r] = "fetch"]
    /\ UNCHANGED <<s_existing, s_root, s_receipt, l_vars, u_vars>>
    /\ UNCHANGED sys_others

\* shield.py:229-236: download the commitments, compute the new root
ShieldFetch(r) ==
    /\ s_pc[r] = "fetch"
    /\ s_existing' = [s_existing EXCEPT ![r] = get_existing_commitments]
    /\ s_root' = [s_root EXCEPT ![r] =
           compute_merkle_root_incremental(get_existing_commitments,
                                           s_commitment[r])]
    /\ s_pc' = [s_pc EXCEPT ![r] = "submit"]
    /\ UNCHANGED <<s_amount, s_secret, s_blinding, s_commitment, s_receipt,
                   l_vars, u_vars>>
    /\ UNCHANGED sys_others

\* the Privacy pallet's shield call, accepted: the commitment is stored at
\* NextIndex and the root the client computed becomes CurrentMerkleRoot
LedgerShield(commitment_h256, merkle_root_h256) ==
    /\ l_commitments' = Append(l_commitments, commitment_h256)
    /\ l_root' = <<merkle_root_h256>>
    /\ UNCHANGED <<l_spent, notes>>

\* a variant of ShieldSubmit that goes on to the note after a failed receipt
ShieldSubmit_noexit(r) ==
    /\ s_pc[r] = "submit"
    /\ \/ /\ LedgerShield(fr_to_h256(s_commitment[r]), fr_to_h256(s_root[r]))
          /\ s_receipt' = [s_receipt EXCEPT ![r] = <<[is_success |-> TRUE]>>]
       \/ /\ s_receipt' = [s_receipt EXCEPT ![r] = <<[is_success |-> FALSE]>>]
          /\ UNCHANGED l_vars
    /\ s_pc' = [s_pc EXCEPT ![r] = "save"]
    /\ UNCHANGED <<s_amount, s_secret, s_blinding, s_commitment, s_existing,
                   s_root, u_vars>>
    /\ UNCHANGED sys_others

\* shield.py:238-263: submit the shield call and wait for the receipt
ShieldSubmit(r) ==
    /\ s_pc[r] = "submit"
    /\ \/ \* receipt.is_success
          /\ LedgerShield(fr_to_h256(s_commitment[r]), fr_to_h256(s_root[r]))
          /\ s_receipt' = [s_receipt EXCEPT ![r] = <<[is_success |-> TRUE]>>]
          /\ s_pc' = [s_pc EXCEPT ![r] = "save"]
       \/ \* the receipt is a failure
          /\ s_receipt' = [s_receipt EXCEPT ![r] = <<[is_success |-> FALSE]>>]
          /\ s_pc' = [s_pc EXCEPT ![r] = "exit1_tx"]
          /\ UNCHANGED l_vars
       \/ \* submit_extrinsic raises
          /\ s_pc' = [s_pc EXCEPT ![r] = "exit1_tx"]
          /\ UNCHANGED <<s_receipt, l_vars>>
    /\ UNCHANGED <<s_amount, s_secret, s_blinding, s_commitment, s_existing,
                   s_root, u_vars>>
    /\ UNCHANGED sys_others

\* shield.py:272-280
note_data(r) ==
    [amount |-> s_amount[r],
     secret |-> fr_to_hex_le(s_secret[r]),
     blinding |-> fr_to_hex_le(s_blinding[r]),
     commitment |-> fr_to_h256(s_commitment[r]),
     leaf_index |-> Len(s_existing[r]),
     merkle_root |-> fr_to_h256(s_root[r]),
     nullifier |-> fr_to_hex_le(compute_nullifier(s_commitment[r], s_secret[r]))]

\* shield.py:265-283: write note_<leaf_index>.json
ShieldSave(r) ==
    /\ s_pc[r] = "save"
    /\ notes' = Put(notes, Len(s_existing[r]), note_data(r))
    /\ s_pc' = [s_pc EXCEPT ![r] = "done"]
    /\ UNCHANGED <<s_amount, s_secret, s_blinding, s_commitment, s_existing,
                   s_root, s_receipt, l_commitments, l_root, l_spent, u_vars>>
    /\ UNCHANGED sys_others

\* unshield.py:118-148: load the note, decode its secrets, connect
UnshieldStart(u) ==
    /\ u_pc[u] = "start"
    /\ \/ \* the note file is not found, or the connection fails
          /\ u_pc' = [u_pc EXCEPT ![u] = "exit1_start"]
          /\ UNCHANGED <<u_note, u_secret, u_blinding>>
       \/ \E k \in DOMAIN notes :
             LET note == notes[k]
                 secret == hex_to_fr_le(note.secret)
                 blinding == hex_to_fr_le(note.blinding)
             IN /\ u_note' = [u_note EXCEPT ![u] = <<note>>]
                /\ IF secret.err # "none" \/ blinding.err # "none"
                   THEN /\ u_pc' = [u_pc EXCEPT ![u] = "crash"]
                        /\ UNCHANGED <<u_secret, u_blinding>>
                   ELSE /\ u_secret' = [u_secret EXCEPT ![u] = secret.val]
                        /\ u_blinding' = [u_blinding EXCEPT ![u] = blinding.val]
                        /\ u_pc' = [u_pc EXCEPT ![u] = "fetch"]
    /\ UNCHANGED <<u_root, u_path, u_mismatch, u_nullifier, u_tmp, u_zk_calls,
                   u_result, u_proof, u_tx, l_vars, s_vars>>
    /\ UNCHANGED sys_others

\* unshield.py:150-167: download the commitments, build the tree, take the
\* path of the note's leaf
UnshieldFetch(u) ==
    /\ u_pc[u] = "fetch"
    /\ LET commitments == get_existing_commitments
           tree == build_merkle_tree(commitments, TREE_DEPTH)
           top == tree[Len(tree)]
       IN /\ u_root' = [u_root EXCEPT ![u] = IF Len(top) > 0 THEN top[1] ELSE 0]
          /\ u_path' = [u_path EXCEPT ![u] =
                 get_merkle_path(tree, u_note[u][1].leaf_index)]
    /\ u_pc' = [u_pc EXCEPT ![u] = "root"]
    /\ UNCHANGED <<u_note, u_secret, u_blinding, u_mismatch, u_nullifier,
                   u_tmp, u_zk_calls, u_result, u_proof, u_tx,
                   l_vars, s_vars>>
    /\ UNCHANGED sys_others

\* unshield.py:169-184: compare with CurrentMerkleRoot (a warning only),
\* recompute the commitment and the nullifier
UnshieldRoot(u) ==
    /\ u_pc[u] = "root"
    /\ LET on_chain_root_int ==
               IF l_root # <<>> THEN h256_to_fr(l_root[1]).val ELSE 0
           commitment == unshield_poseidon_hash(
               <<u_note[u][1].amount, u_secret[u], u_blinding[u]>>)
       IN /\ u_mismatch' = [u_mismatch EXCEPT ![u] = (u_root[u] # on_chain_root_int)]
          /\ u_nullifier' = [u_nullifier EXCEPT ![u] =
                 unshield_poseidon_hash(<<commitment, u_secret[u]>>)]
    /\ u_pc' = [u_pc EXCEPT ![u] = "spent"]
    /\ UNCHANGED <<u_note, u_secret, u_blinding, u_root, u_path, u_tmp,
                   u_zk_calls, u_result, u_proof, u_tx,
                   l_vars, s_vars>>
    /\ UNCHANGED sys_others

\* a query that finds every nullifier unspent
is_spent_never(nullifier_h256) == FALSE

\* unshield.py:188: substrate.query("Privacy", "SpentNullifiers", [h]).value
is_spent(nullifier_h256) == nullifier_h256 \in l_spent

\* unshield.py:186-191: exit when the nullifier is recorded as spent
UnshieldSpentCheck(u) ==
    /\ u_pc[u] = "spent"
    /\ u_pc' = [u_pc EXCEPT ![u] =
           IF is_spent(fr_to_h256(u_nullifier[u])) THEN "exit1_spent" ELSE "zk"]
    /\ UNCHANGED <<u_note, u_secret, u_blinding, u_root, u_path, u_mismatch,
                   u_nullifier, u_tmp, u_zk_calls, u_result, u_proof, u_tx,
                   l_vars,
                   s_vars>>
    /\ UNCHANGED sys_others

\* unshield.py:203-207
merkle_data(u) ==
    [path |-> [k \in 1..Len(u_path[u].path) |-> fr_to_hex_le(u_path[u].path[k])],
     indices |-> u_path[u].indices,
     root |-> fr_to_hex_le(u_root[u])]

\* unshield.py:196-209: exit when the CLI is missing, else write the merkle
\* path file
UnshieldWritePath(u) ==
    /\ u_pc[u] = "zk"
    /\ \/ /\ u_pc' = [u_pc EXCEPT ![u] = "exit1_cli"]
          /\ UNCHANGED u_tmp
       \/ /\ u_tmp' = [u_tmp EXCEPT ![u] = <<merkle_data(u)>>]
          /\ u_pc' = [u_pc EXCEPT ![u] = "prove"]
    /\ UNCHANGED <<u_note, u_secret, u_blinding, u_root, u_path, u_mismatch,
                   u_nullifier, u_zk_calls, u_result, u_proof, u_tx,
                   l_vars, s_vars>>
    /\ UNCHANGED sys_others

\* what the subprocess can return: a zero or nonzero status, and output with
\* or without a proof line; a line is given by its parts around the text
\* 'proof: 0x'
ProverOutcomes ==
    {[returncode |-> c, stdout |-> o] :
        c \in {0, 1},
        o \in {<<<<"Generating proof...">>>>,
               <<<<"Generating proof...">>,
                 <<"Proof generated (", "proof: 0x", "1f)">>>>}}

\* unshield.py:229: 'proof: 0x' in l
HasProofText(l) == \E i \in 1..Len(l) : l[i] = "proof: 0x"

\* unshield.py:229: [l for l in output.split('\n') if 'proof: 0x' in l]
proof_line(output) == SelectSeq(output, HasProofText)

\* a variant of UnshieldProve that does not check the status and the
\* output of the subprocess
UnshieldProve_unchecked(u) ==
    /\ u_pc[u] = "prove"
    /\ u_zk_calls' = [u_zk_calls EXCEPT ![u] = @ + 1]
    /\ u_tmp' = [u_tmp EXCEPT ![u] = "deleted"]
    /\ \/ /\ u_pc' = [u_pc EXCEPT ![u] = "crash"]
          /\ UNCHANGED <<u_result, u_proof>>
       \/ \E result \in ProverOutcomes :
             /\ u_result' = [u_result EXCEPT ![u] = <<result>>]
             /\ u_proof' = [u_proof EXCEPT ![u] = "proof"]
             /\ u_pc' = [u_pc EXCEPT ![u] = "submit"]
    /\ UNCHANGED <<u_note, u_secret, u_blinding, u_root, u_path, u_mismatch,
                   u_nullifier, u_tx, l_vars, s_vars>>
    /\ UNCHANGED sys_others

\* unshield.py:211-239: run lumenyx-zk prove-unshield, parse the proof;
\* finally delete the merkle path file
UnshieldProve(u) ==
    /\ u_pc[u] = "prove"
    /\ u_zk_calls' = [u_zk_calls EXCEPT ![u] = @ + 1]
    /\ u_tmp' = [u_tmp EXCEPT ![u] = "deleted"]
    /\ \/ \* subprocess.run raises TimeoutExpired
          /\ u_pc' = [u_pc EXCEPT ![u] = "crash"]
          /\ UNCHANGED <<u_result, u_proof>>
       \/ \E result \in ProverOutcomes :
             /\ u_result' = [u_result EXCEPT ![u] = <<result>>]
             /\ IF result.returncode # 0
                THEN /\ u_pc' = [u_pc EXCEPT ![u] = "exit1_prover"]
                     /\ UNCHANGED u_proof
                ELSE IF proof_line(result.stdout) = <<>>
                THEN /\ u_pc' = [u_pc EXCEPT ![u] = "exit1_prover"]
                     /\ UNCHANGED u_proof
                ELSE /\ u_proof' = [u_proof EXCEPT ![u] = "proof"]
                     /\ u_pc' = [u_pc EXCEPT ![u] = "submit"]
    /\ UNCHANGED <<u_note, u_secret, u_blinding, u_root, u_path, u_mismatch,
                   u_nullifier, u_tx, l_vars, s_vars>>
    /\ UNCHANGED sys_others

\* unshield.py:214-220: the arguments of lumenyx-zk prove-unshield
prove_unshield_args(u) ==
    [amount |-> u_note[u][1].amount,
     secret |-> fr_to_hex_le(u_secret[u]),
     blinding |-> fr_to_hex_le(u_blinding[u])]

\* unshield.py:244-253
unshield_call_params(u) ==
    [amount |-> u_note[u][1].amount,
     nullifier |-> fr_to_h256(u_nullifier[u]),
     root |-> fr_to_h256(u_root[u]),
     proof |-> u_proof[u]]

\* the Privacy pallet's unshield call, accepted: the nullifier is recorded
LedgerUnshield(call_params) ==
    /\ call_params.nullifier \notin l_spent
    /\ l_spent' = l_spent \cup {call_params.nullifier}
    /\ UNCHANGED <<l_commitments, l_root, notes>>

\* unshield.py:241-268: submit the unshield call and wait for the receipt
UnshieldSubmit(u) ==
    /\ u_pc[u] = "submit"
    /\ u_tx' = [u_tx EXCEPT ![u] = <<unshield_call_params(u)>>]
    /\ \/ \* receipt.is_success
          /\ LedgerUnshield(unshield_call_params(u))
          /\ u_pc' = [u_pc EXCEPT ![u] = "done"]
       \/ \* the receipt is a failure, or submit_extrinsic raises
          /\ u_pc' = [u_pc EXCEPT ![u] = "exit1_tx"]
          /\ UNCHANGED l_vars
    /\ UNCHANGED <<u_note, u_secret, u_blinding, u_root, u_path, u_mismatch,
                   u_nullifier, u_tmp, u_zk_calls, u_result, u_proof, s_vars>>
    /\ UNCHANGED sys_others

Next ==
    \/ \E r \in ShieldRuns : ShieldStart(r)
    \/ \E r \in ShieldRuns : ShieldFetch(r)
    \/ \E r \in ShieldRuns : ShieldSubmit(r)
    \/ \E r \in ShieldRuns : ShieldSave(r)
    \/ \E u \in UnshieldRuns : UnshieldStart(u)
    \/ \E u \in UnshieldRuns : UnshieldFetch(u)
    \/ \E u \in UnshieldRuns : UnshieldRoot(u)
    \/ \E u \in UnshieldRuns : UnshieldSpentCheck(u)
    \/ \E u \in UnshieldRuns : UnshieldWritePath(u)
    \/ \E u \in UnshieldRuns : UnshieldProve(u)
    \/ \E u \in UnshieldRuns : UnshieldSubmit(u)

----------------------------------------------------------------------------
(* find_pow of faucet_pow.py, become_validator.py and claim_faucet.py,     *)
(* applied to one public key and difficulty, one call at a time; each step *)
(* is one iteration of the search loop.                                    *)

PowFiles == {"faucet_pow", "become_validator", "claim_faucet"}

PowIdle ==
    /\ p_pub = <<>>
    /\ p_diff = 0
    /\ p_run = "off"
    /\ p_nonce = 0
    /\ p_ret = <<>>

PowInit ==
    /\ p_pub \in PubKeys
    /\ p_diff \in 0..MaxDifficulty
    /\ p_run = "none"
    /\ p_nonce = 0
    /\ p_ret = [f \in {} |-> 0]

\* faucet_pow.py:69, become_validator.py:85, claim_faucet.py:31: nonce = 0
PowCall ==
    /\ p_run = "none"
    /\ \E f \in PowFiles \ DOMAIN p_ret : p_run' = f
    /\ p_nonce' = 0
    /\ UNCHANGED <<p_pub, p_diff, p_ret>>
    /\ UNCHANGED p_others

\* one iteration that tried nonce and got try: return, or go on
PowIteration(f, try) ==
    IF try.found
    THEN /\ p_ret' = p_ret @@ (f :> [nonce |-> p_nonce, hash |-> try.hash])
         /\ p_run' = "none"
         /\ UNCHANGED <<p_pub, p_diff, p_nonce>>
    ELSE /\ p_nonce < MaxNonce
         /\ p_nonce' = p_nonce + 1
         /\ UNCHANGED <<p_pub, p_diff, p_run, p_ret>>

\* faucet_pow.py:71-84
FaucetPowStep ==
    /\ p_run = "faucet_pow"
    /\ PowIteration("faucet_pow", faucet_pow_try(p_pub, p_nonce, p_diff))
    /\ UNCHANGED p_others

\* become_validator.py:88-110
BecomeValidatorPowStep ==
    /\ p_run = "become_validator"
    /\ PowIteration("become_validator", bv_pow_try(p_pub, p_nonce, p_diff))
    /\ UNCHANGED p_others

\* claim_faucet.py:32-46
ClaimFaucetPowStep ==
    /\ p_run = "claim_faucet"
    /\ PowIteration("claim_faucet", cf_pow_try(p_pub, p_nonce, p_diff))
    /\ UNCHANGED p_others

PowNext ==
    \/ PowCall
    \/ FaucetPowStep
    \/ BecomeValidatorPowStep
    \/ ClaimFaucetPowStep

----------------------------------------------------------------------------
(* count_leading_zero_bits applied to one byte string.                     *)

ClzIdle ==
    /\ z_bytes = <<>>
    /\ z_pc = "off"
    /\ z_out = 0

ClzInit ==
    /\ z_bytes \in SeqsUpTo(ByteSample, 0, MaxClzLen)
    /\ z_pc = "ready"
    /\ z_out = 0

\* faucet_pow.py:53-62
CountLeadingZeroBits ==
    /\ z_pc = "ready"
    /\ z_out' = count_leading_zero_bits(z_bytes)
    /\ z_pc' = "done"
    /\ UNCHANGED z_bytes
    /\ UNCHANGED z_others

ClzNext == CountLeadingZeroBits

----------------------------------------------------------------------------
(* The Merkle functions, applied to a leaf list.  The list may be one leaf *)
(* longer than the tree holds: the code accepts it.                        *)

MerkleIdle ==
    /\ m_existing = <<>>
    /\ m_new = 0
    /\ m_pc = "off"
    /\ m_filled = <<>>
    /\ m_idx = 0
    /\ m_inc_root = 0
    /\ m_full = FALSE
    /\ m_full_root = 0
    /\ m_tree = <<>>
    /\ m_leaf_index = 0
    /\ m_path = [path |-> <<>>, indices |-> <<>>]
    /\ m_out = <<>>

MerkleInit ==
    /\ m_existing \in SeqsUpTo(LeafVals, 0, MaxExisting)
    /\ m_new \in LeafVals
    /\ m_pc = "idle"
    /\ m_filled = <<>>
    /\ m_idx = 0
    /\ m_inc_root = 0
    /\ m_full = FALSE
    /\ m_full_root = 0
    /\ m_tree = <<>>
    /\ m_leaf_index = 0
    /\ m_path = [path |-> <<>>, indices |-> <<>>]
    /\ m_out = <<>>

\* shield.py:84-107: the full rebuild
FullRebuild ==
    /\ m_pc # "off"
    /\ ~m_full
    /\ m_full' = TRUE
    /\ m_full_root' = compute_merkle_root(m_existing, m_new, Len(m_existing))
    /\ UNCHANGED <<m_existing, m_new, m_pc, m_filled, m_idx, m_inc_root,
                   m_tree, m_leaf_index, m_path, m_out>>
    /\ UNCHANGED m_others

\* shield.py:114-119: the direct path of compute_merkle_root_incremental
IncDirect ==
    /\ m_pc = "idle"
    /\ Len(m_existing) + 1 <= DIRECT_MAX
    /\ m_inc_root' = compute_merkle_root(m_existing, m_new, Len(m_existing))
    /\ m_pc' = "inc_done"
    /\ UNCHANGED <<m_existing, m_new, m_filled, m_idx, m_full, m_full_root,
                   m_tree, m_leaf_index, m_path, m_out>>
    /\ UNCHANGED m_others

\* shield.py:114-124: the frontier path starts with an all-zero frontier
IncFrontierStart ==
    /\ m_pc = "idle"
    /\ Len(m_existing) + 1 > DIRECT_MAX
    /\ m_filled' = [l \in 1..TREE_DEPTH |-> 0]
    /\ m_idx' = 0
    /\ m_pc' = "loop"
    /\ UNCHANGED <<m_existing, m_new, m_inc_root, m_full, m_full_root, m_tree,
                   m_leaf_index, m_path, m_out>>
    /\ UNCHANGED m_others

\* shield.py:126-139: one iteration of the insertion loop
IncInsert ==
    /\ m_pc = "loop"
    /\ m_idx < Len(MAllLeaves)
    /\ m_filled' = FrontierInsert(m_filled, m_idx, MAllLeaves[m_idx + 1])
    /\ m_idx' = m_idx + 1
    /\ UNCHANGED <<m_existing, m_new, m_pc, m_inc_root, m_full, m_full_root,
                   m_tree, m_leaf_index, m_path, m_out>>
    /\ UNCHANGED m_others

\* shield.py:141-157: the root from the frontier
IncRoot ==
    /\ m_pc = "loop"
    /\ m_idx = Len(MAllLeaves)
    /\ m_inc_root' = FrontierRoot(m_filled)
    /\ m_pc' = "inc_done"
    /\ UNCHANGED <<m_existing, m_new, m_filled, m_idx, m_full, m_full_root,
                   m_tree, m_leaf_index, m_path, m_out>>
    /\ UNCHANGED m_others

\* unshield.py:165: tree = build_merkle_tree(commitments, depth=20)
BuildTree ==
    /\ m_pc = "idle"
    /\ m_tree' = build_merkle_tree(MAllLeaves, TREE_DEPTH)
    /\ m_pc' = "tree"
    /\ UNCHANGED <<m_existing, m_new, m_filled, m_idx, m_inc_root, m_full,
                   m_full_root, m_leaf_index, m_path, m_out>>
    /\ UNCHANGED m_others

\* unshield.py:167: path, indices = get_merkle_path(tree, leaf_index)
GetPath ==
    /\ m_pc = "tree"
    /\ \E i \in 0..Len(MAllLeaves) :
          /\ m_leaf_index' = i
          /\ m_path' = get_merkle_path(m_tree, i)
    /\ m_pc' = "path"
    /\ UNCHANGED <<m_existing, m_new, m_filled, m_idx, m_inc_root, m_full,
                   m_full_root, m_tree, m_out>>
    /\ UNCHANGED m_others

\* get_merkle_path.py:144-149: the output file
gmp_output(leaf_index, root, path, indices) ==
    [leaf_index |-> leaf_index,
     root |-> int_to_hex(root),
     path |-> [k \in 1..Len(path) |-> int_to_hex(path[k])],
     indices |-> indices]

\* get_merkle_path.py:99-152: main: the index check against NextIndex, the
\* leaves padded to the tree size, the tree, the path and the output file
GmpMain ==
    /\ m_pc = "idle"
    /\ \E tree \in {gmp_build_merkle_tree(PadZeros(MAllLeaves, 2 ^ GMP_TREE_DEPTH))} :
       \E leaf_index \in 0..Len(MAllLeaves) :
       \E found \in {get_merkle_path(tree, leaf_index)} :
          LET num_leaves == Len(MAllLeaves)
              root == tree[Len(tree)][1]
          IN /\ m_leaf_index' = leaf_index
             /\ IF leaf_index >= num_leaves
                THEN /\ m_pc' = "gmp_exit1"
                     /\ UNCHANGED <<m_tree, m_path, m_out>>
                ELSE /\ m_pc' = "gmp_path"
                     /\ m_tree' = tree
                     /\ m_path' = found
                     /\ m_out' = <<gmp_output(leaf_index, root, found.path,
                                              found.indices)>>
    /\ UNCHANGED <<m_existing, m_new, m_filled, m_idx, m_inc_root, m_full,
                   m_full_root>>
    /\ UNCHANGED m_others

MerkleNext ==
    \/ FullRebuild
    \/ IncDirect
    \/ IncFrontierStart
    \/ IncInsert
    \/ IncRoot
    \/ BuildTree
    \/ GetPath
    \/ GmpMain

----------------------------------------------------------------------------
(* The two-commitment scenario: unshield.py's tree and path at depth 2.    *)

ScenarioIdle ==
    /\ d_a = 0
    /\ d_b = 0
    /\ d_pc = "off"
    /\ d_leaves = <<>>
    /\ d_tree = <<>>
    /\ d_path = [path |-> <<>>, indices |-> <<>>]

ScenarioInit ==
    /\ d_a \in 0..MaxScenarioLeaf
    /\ d_b \in 0..MaxScenarioLeaf
    /\ d_pc = "fetch"
    /\ d_leaves = <<>>
    /\ d_tree = <<>>
    /\ d_path = [path |-> <<>>, indices |-> <<>>]

\* unshield.py:154-162: one iteration of the download loop: the commitment
\* at the next index is appended
ScenarioFetch ==
    /\ d_pc = "fetch"
    /\ Len(d_leaves) < 2
    /\ d_leaves' = Append(d_leaves, IF Len(d_leaves) = 0 THEN d_a ELSE d_b)
    /\ UNCHANGED <<d_a, d_b, d_pc, d_tree, d_path>>
    /\ UNCHANGED d_others

\* unshield.py:165: tree = build_merkle_tree(commitments, depth), depth 2
ScenarioBuild ==
    /\ d_pc = "fetch"
    /\ Len(d_leaves) = 2
    /\ d_tree' = build_merkle_tree(d_leaves, 2)
    /\ d_pc' = "tree"
    /\ UNCHANGED <<d_a, d_b, d_leaves, d_path>>
    /\ UNCHANGED d_others

\* unshield.py:167: path, indices = get_merkle_path(tree, leaf_index), leaf 0
ScenarioPath ==
    /\ d_pc = "tree"
    /\ d_path' = get_merkle_path(d_tree, 0)
    /\ d_pc' = "path"
    /\ UNCHANGED <<d_a, d_b, d_leaves, d_tree>>
    /\ UNCHANGED d_others

ScenarioNext ==
    \/ ScenarioFetch
    \/ ScenarioBuild
    \/ ScenarioPath

----------------------------------------------------------------------------
(* become_validator.py.                                                    *)

ValidatorIdle ==
    /\ v_pc = "off"
    /\ v_is_local = FALSE
    /\ v_key_file = "none"
    /\ v_balance = 0
    /\ v_claimed = FALSE
    /\ v_next_keys = FALSE
    /\ v_runs = 0
    /\ v_sk_pc = "off"
    /\ v_sk_runs = 0

\* the script is started; the key file may hold an account that has a
\* balance, a faucet claim or registered keys, a fresh account has none
ValidatorInit ==
    /\ v_pc = "connect"
    /\ v_is_local = FALSE
    /\ v_runs = 1
    /\ v_sk_pc = "idle"
    /\ v_sk_runs = 0
    /\ \/ /\ v_key_file = "valid"
          /\ v_balance \in {0, FAUCET_AMOUNT}
          /\ v_claimed \in BOOLEAN
          /\ v_next_keys \in BOOLEAN
       \/ /\ v_key_file \in {"none", "invalid"}
          /\ v_balance = 0
          /\ v_claimed = FALSE
          /\ v_next_keys = FALSE

\* become_validator.py:54-78: the local node, else the mainnet bootnode, else
\* sys.exit(1)
connect_to_node ==
    /\ v_pc = "connect"
    /\ \/ /\ v_is_local' = TRUE
          /\ v_pc' = "keys"
       \/ /\ v_is_local' = FALSE
          /\ v_pc' = "keys"
       \/ /\ v_pc' = "exit1"
          /\ UNCHANGED v_is_local
    /\ UNCHANGED <<v_key_file, v_balance, v_claimed, v_next_keys, v_runs,
                   v_sk_pc, v_sk_runs>>
    /\ UNCHANGED v_others

\* become_validator.py:215-239, 250-260: load the account of the key file,
\* or generate a new account and save its mnemonic
check_existing_keys ==
    /\ v_pc = "keys"
    /\ v_key_file' = "valid"
    /\ v_pc' = "faucet"
    /\ UNCHANGED <<v_is_local, v_balance, v_claimed, v_next_keys, v_runs,
                   v_sk_pc, v_sk_runs>>
    /\ UNCHANGED v_others

\* the ValidatorFaucet pallet's claim_for_validator, accepted
LedgerClaim ==
    /\ v_balance' = v_balance + FAUCET_AMOUNT
    /\ v_claimed' = TRUE

\* become_validator.py:116-122: the first balance query; a balance ends the
\* function with True
claim_balance_before ==
    /\ v_pc = "faucet"
    /\ v_pc' = IF v_balance > 0 THEN "session" ELSE "claim"
    /\ UNCHANGED <<v_is_local, v_key_file, v_balance, v_claimed, v_next_keys,
                   v_runs, v_sk_pc, v_sk_runs>>
    /\ UNCHANGED v_others

\* become_validator.py:124-151: find_pow, then the claim is submitted and
\* waited for; the receipt is not looked at
claim_submit ==
    /\ v_pc = "claim"
    /\ \/ \* the claim is included and accepted
          /\ ~v_claimed
          /\ LedgerClaim
          /\ v_pc' = "verify"
       \/ \* the claim is included and fails, or AlreadyClaimed is raised
          /\ v_pc' = "verify"
          /\ UNCHANGED <<v_balance, v_claimed>>
       \/ \* another exception: return False, sys.exit(1) in main
          /\ v_pc' = "exit1"
          /\ UNCHANGED <<v_balance, v_claimed>>
    /\ UNCHANGED <<v_is_local, v_key_file, v_next_keys, v_runs, v_sk_pc,
                   v_sk_runs>>
    /\ UNCHANGED v_others

\* become_validator.py:153-158, 274-277: after time.sleep(1) the second
\* balance query; False ends the run with sys.exit(1)
claim_balance_after ==
    /\ v_pc = "verify"
    /\ v_pc' = IF v_balance > 0 THEN "session" ELSE "exit1"
    /\ UNCHANGED <<v_is_local, v_key_file, v_balance, v_claimed, v_next_keys,
                   v_runs, v_sk_pc, v_sk_runs>>
    /\ UNCHANGED v_others

\* become_validator.py:112-158, 274-277: claim_from_faucet
claim_from_faucet ==
    \/ claim_balance_before
    \/ claim_submit
    \/ claim_balance_after

\* the Session pallet's set_keys, accepted
LedgerSetKeys == v_next_keys' = TRUE

\* become_validator.py:164-173, 279-288: setup_session_keys is skipped when
\* the node is not local; else the NextKeys query, and keys found end the
\* function with True
session_next_keys ==
    /\ v_pc = "session"
    /\ v_pc' = IF ~v_is_local THEN "banner"
               ELSE IF v_next_keys THEN "banner"
               ELSE "rotate"
    /\ UNCHANGED <<v_is_local, v_key_file, v_balance, v_claimed, v_next_keys,
                   v_runs, v_sk_pc, v_sk_runs>>
    /\ UNCHANGED v_others

\* become_validator.py:175-213: author_rotateKeys, then set_keys is submitted
\* and waited for
session_set_keys ==
    /\ v_pc = "rotate"
    /\ \/ \* author_rotateKeys answers and set_keys succeeds
          /\ LedgerSetKeys
          /\ v_pc' = "banner"
       \/ \* author_rotateKeys fails, or set_keys fails or raises
          /\ v_pc' = "exit1"
          /\ UNCHANGED v_next_keys
    /\ UNCHANGED <<v_is_local, v_key_file, v_balance, v_claimed, v_runs,
                   v_sk_pc, v_sk_runs>>
    /\ UNCHANGED v_others

\* become_validator.py:160-213, 279-288: setup_session_keys when the node is
\* local, skipped otherwise
setup_session_keys ==
    \/ session_next_keys
    \/ session_set_keys

\* become_validator.py:290-318: the success banner
success_banner ==
    /\ v_pc = "banner"
    /\ v_pc' = "done"
    /\ UNCHANGED <<v_is_local, v_key_file, v_balance, v_claimed, v_next_keys,
                   v_runs, v_sk_pc, v_sk_runs>>
    /\ UNCHANGED v_others

\* become_validator.py:320-329: the script is started again
run_again ==
    /\ v_pc \in {"done", "exit1"}
    /\ v_runs < MaxValidatorRuns
    /\ v_runs' = v_runs + 1
    /\ v_pc' = "connect"
    /\ v_is_local' = FALSE
    /\ UNCHANGED <<v_key_file, v_balance, v_claimed, v_next_keys, v_sk_pc,
                   v_sk_runs>>
    /\ UNCHANGED v_others

\* the Balances pallet's transfer_keep_alive to the account, accepted
LedgerTransfer(value) == v_balance' = v_balance + value

\* transfer.py:24-70: main, with RECEIVER the account of the key file; a
\* failed connection or transfer changes nothing
transfer_main ==
    /\ v_key_file = "valid"
    /\ v_balance + AMOUNT <= MaxBalance
    /\ LedgerTransfer(AMOUNT)
    /\ UNCHANGED <<v_pc, v_is_local, v_key_file, v_claimed, v_next_keys,
                   v_runs, v_sk_pc, v_sk_runs>>
    /\ UNCHANGED v_others

\* set_keys.py:15-47: main is started with the mnemonic of the key file:
\* connect to the local node, read the mnemonic, query the balance
set_keys_start ==
    /\ v_sk_pc \in {"idle", "done", "exit1"}
    /\ v_sk_runs < MaxSetKeysRuns
    /\ v_key_file = "valid"
    /\ v_sk_runs' = v_sk_runs + 1
    /\ \/ \* no local node, or a mnemonic that is not 12 words
          v_sk_pc' = "exit1"
       \/ v_sk_pc' = IF v_balance = 0 THEN "exit1" ELSE "keys"
    /\ UNCHANGED <<v_pc, v_is_local, v_key_file, v_balance, v_claimed,
                   v_next_keys, v_runs>>
    /\ UNCHANGED v_others

\* set_keys.py:49-76: author_rotateKeys, then set_keys is submitted and
\* waited for
set_keys_submit ==
    /\ v_sk_pc = "keys"
    /\ \/ \* receipt.is_success
          /\ LedgerSetKeys
          /\ v_sk_pc' = "done"
       \/ \* the receipt is a failure, or a call raises
          /\ v_sk_pc' = "exit1"
          /\ UNCHANGED v_next_keys
    /\ UNCHANGED <<v_pc, v_is_local, v_key_file, v_balance, v_claimed, v_runs,
                   v_sk_runs>>
    /\ UNCHANGED v_others

\* set_keys.py:15-78: main
set_keys_main ==
    \/ set_keys_start
    \/ set_keys_submit

ValidatorNext ==
    \/ connect_to_node
    \/ check_existing_keys
    \/ claim_from_faucet
    \/ setup_session_keys
    \/ success_banner
    \/ run_again
    \/ transfer_main
    \/ set_keys_main

----------------------------------------------------------------------------
(* The specifications.                                                     *)

InitMerkle ==
    MerkleInit /\ HashIdle /\ CodecIdle /\ PowIdle /\ ClzIdle /\ SystemIdle /\ ScenarioIdle /\ ValidatorIdle

SpecMerkle == InitMerkle /\ [][MerkleNext]_vars

InitHash ==
    HashInit /\ MerkleIdle /\ CodecIdle /\ PowIdle /\ ClzIdle /\ SystemIdle /\ ScenarioIdle /\ ValidatorIdle

SpecHash == InitHash /\ [][HashNext]_vars

InitCodec ==
    CodecInit /\ MerkleIdle /\ HashIdle /\ PowIdle /\ ClzIdle /\ SystemIdle /\ ScenarioIdle /\ ValidatorIdle

SpecCodec == InitCodec /\ [][CodecNext]_vars

InitPow ==
    PowInit /\ MerkleIdle /\ HashIdle /\ CodecIdle /\ ClzIdle /\ SystemIdle /\ ScenarioIdle /\ ValidatorIdle

SpecPow == InitPow /\ [][PowNext]_vars

InitClz ==
    ClzInit /\ MerkleIdle /\ HashIdle /\ CodecIdle /\ PowIdle /\ SystemIdle /\ ScenarioIdle /\ ValidatorIdle

SpecClz == InitClz /\ [][ClzNext]_vars

InitScenario ==
    ScenarioInit /\ MerkleIdle /\ HashIdle /\ CodecIdle /\ PowIdle /\ ClzIdle /\ SystemIdle /\ ValidatorIdle

SpecScenario == InitScenario /\ [][ScenarioNext]_vars

InitValidator ==
    ValidatorInit /\ MerkleIdle /\ HashIdle /\ CodecIdle /\ PowIdle /\ ClzIdle /\ SystemIdle /\ ScenarioIdle

SpecValidator == InitValidator /\ [][ValidatorNext]_vars

Init ==
    SystemInit /\ MerkleIdle /\ HashIdle /\ CodecIdle /\ PowIdle /\ ClzIdle /\ ScenarioIdle /\ ValidatorIdle

Spec == Init /\ [][Next]_vars

----------------------------------------------------------------------------
(* Claims about the Merkle accumulator.                                    *)

RECURSIVE MerkleFold(_, _, _, _)
\* the fold of a leaf up its authentication path: the parent is
\* hash_pair(sibling, node) where the flag says the node is the right child
MerkleFold(node, path, indices, k) ==
    IF k > Len(path) THEN node
    ELSE MerkleFold(IF indices[k] THEN poseidon_hash_pair(path[k], node)
                    ELSE poseidon_hash_pair(node, path[k]),
                    path, indices, k + 1)

\* C1: for a total leaf count in 1..2^TREE_DEPTH the incremental root equals
\* the root of the full rebuild over the same leaves, on both paths
C1_IncrementalEqualsFull ==
    (m_pc = "inc_done" /\ m_full /\ Len(MAllLeaves) <= 2 ^ TREE_DEPTH)
        => m_inc_root = m_full_root

\* C1 on the direct path alone (total leaf count <= DIRECT_MAX)
C1_DirectPathAgrees ==
    (m_pc = "inc_done" /\ m_full /\ Len(MAllLeaves) <= DIRECT_MAX)
        => m_inc_root = m_full_root

\* C2: the path of every committed leaf has TREE_DEPTH siblings and flags and
\* folds to the root tree[-1][0]
C2_PathFoldsToRoot ==
    (m_pc = "path" /\ m_leaf_index < Len(MAllLeaves))
        => /\ Len(m_path.path) = TREE_DEPTH
           /\ Len(m_path.indices) = TREE_DEPTH
           /\ MerkleFold(MAllLeaves[m_leaf_index + 1], m_path.path,
                         m_path.indices, 1) = m_tree[Len(m_tree)][1]

\* C2 for the leaf lists the tree holds (at most 2^TREE_DEPTH leaves)
C2_PathFoldsToRootInCapacity ==
    (m_pc = "path" /\ m_leaf_index < Len(MAllLeaves)
                   /\ Len(MAllLeaves) <= 2 ^ TREE_DEPTH)
        => /\ Len(m_path.path) = TREE_DEPTH
           /\ Len(m_path.indices) = TREE_DEPTH
           /\ MerkleFold(MAllLeaves[m_leaf_index + 1], m_path.path,
                         m_path.indices, 1) = m_tree[Len(m_tree)][1]

\* x with bit b flipped (bit 0 is the least significant)
FlipBit(x, b) ==
    IF (x \div (2 ^ b)) % 2 = 1 THEN x - 2 ^ b ELSE x + 2 ^ b

\* the bits of a field buffer
BufferBits == 0..(8 * BYTES_LEN - 1)

\* C3: with any one bit of any one sibling of a committed leaf's path
\* flipped, the fold does not give the tree root
C3_FlippedSiblingFails ==
    (m_pc = "path" /\ m_leaf_index < Len(MAllLeaves))
        => \A k \in 1..Len(m_path.path) : \A b \in BufferBits :
              MerkleFold(MAllLeaves[m_leaf_index + 1],
                         [m_path.path EXCEPT ![k] = FlipBit(@, b)],
                         m_path.indices, 1) # m_tree[Len(m_tree)][1]

\* a path was taken for a committed non-zero leaf that is a right child at
\* the first level and a left child at the second
C3_Witness ==
    /\ m_pc = "path"
    /\ m_leaf_index < Len(MAllLeaves)
    /\ MAllLeaves[m_leaf_index + 1] # 0
    /\ Len(m_path.path) = TREE_DEPTH
    /\ m_path.indices[1]
    /\ ~m_path.indices[2]

----------------------------------------------------------------------------
(* Claims about the hash and the codecs.                                   *)

\* the fifth power as a product
FifthPower(x) == x * x * x * x * x

RECURSIVE RoundSequence(_, _, _)
\* from state, for each input from 1-based position i on: add the input,
\* raise to the fifth power, add the position, each modulo the prime
RoundSequence(state, inputs, i) ==
    IF i > Len(inputs) THEN state
    ELSE LET added == (state + inputs[i]) % FIELD_MODULUS
             raised == FifthPower(added) % FIELD_MODULUS
         IN RoundSequence((raised + i) % FIELD_MODULUS, inputs, i + 1)

\* C5: the three poseidon_hash implementations return the same value, the
\* one of the add, fifth-power, add-position sequence started at 0
C5_HashImplementationsAgree ==
    /\ \A f \in DOMAIN h_out : h_out[f] = RoundSequence(0, h_inputs, 1)
    /\ \A f, g \in DOMAIN h_out : h_out[f] = h_out[g]

\* all three implementations have hashed a list of three inputs, one of them
\* not below the modulus
C5_Witness ==
    /\ DOMAIN h_out = HashFiles
    /\ Len(h_inputs) = 3
    /\ \E i \in 1..3 : h_inputs[i] >= FIELD_MODULUS

\* the bytes a hex string holds, and whether it holds whole bytes
HexWholeBytes(h) == Len(h.digits) % 2 = 0
\* the hex string is BYTES_LEN bytes long
HexRightLength(h) == Len(h.digits) = 2 * BYTES_LEN

\* the integer a decoder parses from the hex string
ParsedInt(dec, h) ==
    IF dec = "hex_to_fr_le" THEN IntFromBytesLE(BytesFromHex(h.digits))
    ELSE IntFromHexDigits(h.digits)

\* C6: every decode of a buffer that is not exactly BYTES_LEN bytes, or that
\* parses to an integer >= the modulus, fails with an error
C6_DecodeRejectsNonCanonical ==
    (c_dec # "none" /\ (~HexRightLength(c_hex)
                        \/ ParsedInt(c_dec, c_hex) >= FIELD_MODULUS))
        => c_res.err # "none"

\* C6 for the little-endian decoder alone
C6_LittleEndianRejects ==
    (c_dec = "hex_to_fr_le" /\ (~HexRightLength(c_hex)
                                \/ ParsedInt(c_dec, c_hex) >= FIELD_MODULUS))
        => c_res.err # "none"

\* C7: a field element encoded by fr_to_h256 decodes by h256_to_fr to
\* itself, and one encoded by fr_to_hex_le decodes by hex_to_fr_le to itself
C7_RoundTrip ==
    (c_x < FIELD_MODULUS
     /\ \/ c_src = "fr_to_h256" /\ c_dec = "h256_to_fr"
        \/ c_src = "fr_to_hex_le" /\ c_dec = "hex_to_fr_le")
        => c_res = Ok(c_x)

\* the largest field element went through the little-endian round trip
C7_Witness ==
    /\ c_x = FIELD_MODULUS - 1
    /\ c_src = "fr_to_hex_le"
    /\ c_dec = "hex_to_fr_le"
    /\ c_res.err = "none"

----------------------------------------------------------------------------
(* Claims about the proof of work.                                         *)

\* the bits of a byte string, most significant bit of the first byte first
BitAt(bytes, j) == (bytes[(j \div 8) + 1] \div (2 ^ (7 - (j % 8)))) % 2

\* the number of zero bits before the first one bit
LeadingZeroBits(bytes) ==
    LET n == 8 * Len(bytes)
        ones == {j \in 0..(n - 1) : BitAt(bytes, j) = 1}
    IN IF ones = {} THEN n
       ELSE CHOOSE j \in ones : \A k \in ones : j <= k

\* the digests of public key || little-endian nonce, for the public keys and
\* nonces of the search
PowDigestTable ==
    [pub \in PubKeys |->
        [nonce \in 0..MaxNonce |-> blake2_256(pub \o ToBytesLE(nonce, NONCE_LEN))]]

\* the digest of public key || little-endian nonce
PowDigest(pub, nonce) == PowDigestTable[pub][nonce]

\* C8: the nonce a find_pow copy returns has a digest with at least
\* difficulty leading zero bits, the returned hash is that digest, no smaller
\* nonce has such a digest, and the copies return the same nonce
C8_PowMinimalNonce ==
    /\ \A f \in DOMAIN p_ret :
          /\ LeadingZeroBits(PowDigest(p_pub, p_ret[f].nonce)) >= p_diff
          /\ p_ret[f].hash = PowDigest(p_pub, p_ret[f].nonce)
          /\ \A n \in 0..(p_ret[f].nonce - 1) :
                LeadingZeroBits(PowDigest(p_pub, n)) < p_diff
    /\ \A f, g \in DOMAIN p_ret : p_ret[f].nonce = p_ret[g].nonce

\* the three copies returned after a search of at least thirty nonces
C8_Witness ==
    /\ DOMAIN p_ret = PowFiles
    /\ p_diff >= 3
    /\ \A f \in PowFiles : p_ret[f].nonce >= 30

\* C9: count_leading_zero_bits returns the number of zero bits before the
\* first one bit, most significant bit first, 8 * length for all-zero bytes
C9_LeadingZeroBitCount ==
    z_pc = "done" => z_out = LeadingZeroBits(z_bytes)

\* counted: a zero byte, then a byte with leading zero bits, then one more
C9_Witness ==
    /\ z_pc = "done"
    /\ Len(z_bytes) = 3
    /\ z_bytes[1] = 0
    /\ z_bytes[2] \in 1..127
    /\ z_bytes[3] # 0

----------------------------------------------------------------------------
(* Claims about the shield and unshield runs.                              *)

\* Hash(inputs): the algebraic hash as the round sequence started at 0
Hash(inputs) == RoundSequence(0, inputs, 1)

\* the field element a little-endian hex string of the note holds
NoteField(h) == IntFromBytesLE(BytesFromHex(h.digits))

\* Hash(Hash(amount, secret, blinding), secret) of a note's fields
NoteHashOfHash(note) ==
    Hash(<<Hash(<<note.amount, NoteField(note.secret), NoteField(note.blinding)>>),
           NoteField(note.secret)>>)

\* the unshield runs that have recomputed the nullifier and gone on
UnshieldPastNullifier ==
    {u \in UnshieldRuns :
        u_pc[u] \in {"spent", "zk", "prove", "submit", "done", "exit1_spent",
                     "exit1_cli", "exit1_prover", "exit1_tx"}}

\* C4: the nullifier unshield.py recomputes from a note equals the one
\* shield.py stored in it, and both are Hash(Hash(amount, secret, blinding),
\* secret)
C4_NullifierRecomputed ==
    /\ \A k \in DOMAIN notes :
          NoteField(notes[k].nullifier) = NoteHashOfHash(notes[k])
    /\ \A u \in UnshieldPastNullifier :
          /\ fr_to_hex_le(u_nullifier[u]) = u_note[u][1].nullifier
          /\ u_nullifier[u] = NoteHashOfHash(u_note[u][1])

\* an unshield run recomputed the nullifier of a note whose amount is not
\* below the modulus
C4_Witness ==
    \E u \in UnshieldPastNullifier :
        /\ u_note[u][1].amount >= FIELD_MODULUS
        /\ u_pc[u] = "done"

\* C7 for the notes: the secret and blinding an unshield run decoded from a
\* note are the ones the shield run that wrote the note generated
C7_NoteSecretsDecoded ==
    \A u \in UnshieldRuns :
        u_pc[u] \in {"fetch", "root", "spent", "zk", "prove", "submit", "done"}
            => \E r \in ShieldRuns :
                  /\ s_pc[r] = "done"
                  /\ note_data(r) = u_note[u][1]
                  /\ u_secret[u] = s_secret[r]
                  /\ u_blinding[u] = s_blinding[r]

\* the nullifier of the note a run loaded, as the ledger records it
NoteNullifierH256(u) == fr_to_h256(NoteField(u_note[u][1].nullifier))

\* the positions of an unshield run after it loaded the note and before it
\* passed the spent check
UnshieldBeforeProof == {"fetch", "root", "spent"}

\* the positions after sys.exit(1) or an uncaught exception
UnshieldFailed ==
    {"exit1_start", "exit1_spent", "exit1_cli", "exit1_prover", "exit1_tx",
     "crash"}

\* C10: a run whose note's nullifier is recorded as spent when it has not
\* yet passed the spent check goes on only to an error exit: the prover is
\* not invoked, no unshield call is submitted, and a failed run stays failed
C10_SpentNoteNeverProved ==
    [][\A u \in UnshieldRuns :
          /\ (u_pc[u] \in UnshieldBeforeProof /\ NoteNullifierH256(u) \in l_spent)
                => /\ u_pc'[u] \in UnshieldBeforeProof \cup UnshieldFailed
                   /\ u_zk_calls'[u] = 0
                   /\ u_tx'[u] = <<>>
          /\ (u_pc[u] = "spent" /\ NoteNullifierH256(u) \in l_spent
                                /\ u_pc'[u] # "spent")
                => u_pc'[u] = "exit1_spent"
          /\ u_pc[u] \in UnshieldFailed
                => /\ u_pc'[u] = u_pc[u]
                   /\ u_zk_calls'[u] = u_zk_calls[u]
                   /\ u_tx'[u] = u_tx[u]]_vars

\* a run exited at the spent check, after another run spent the same note
C10_Witness ==
    \E u, v \in UnshieldRuns :
        /\ u_pc[u] = "exit1_spent"
        /\ u_pc[v] = "done"
        /\ NoteNullifierH256(u) \in l_spent
        /\ u_zk_calls[u] = 0
        /\ u_tx[u] = <<>>

\* C11: no unshield call is submitted by a run whose locally computed root
\* differed from the CurrentMerkleRoot it read
C11_StaleRootNeverSubmitted ==
    \A u \in UnshieldRuns : u_tx[u] # <<>> => ~u_mismatch[u]

\* C12: a request for the path of a leaf index >= the number of leaves
\* fails with an error and produces no path, in both programs
C12_IndexOutOfRangeFails ==
    (m_pc \in {"path", "gmp_path", "gmp_exit1"} /\ m_leaf_index >= Len(MAllLeaves))
        => /\ m_pc = "gmp_exit1"
           /\ m_path = [path |-> <<>>, indices |-> <<>>]

\* C12 for get_merkle_path.py alone
C12_GmpIndexOutOfRangeFails ==
    (m_pc \in {"gmp_path", "gmp_exit1"} /\ m_leaf_index >= Len(MAllLeaves))
        => /\ m_pc = "gmp_exit1"
           /\ m_path = [path |-> <<>>, indices |-> <<>>]

\* C13: for more than 2^TREE_DEPTH leaves tree construction returns neither
\* a root (compute_merkle_root) nor a tree (build_merkle_tree)
C13_TreeOverflowFails ==
    Len(MAllLeaves) > 2 ^ TREE_DEPTH
        => /\ ~m_full
           /\ m_pc \notin {"tree", "path", "gmp_path"}

\* C14: in a tree of depth 2 over A then B the leaves are [A, B, 0, 0], the
\* root is Hash(Hash(A, B), Hash(0, 0)) and the path of leaf 0 is
\* [B, Hash(0, 0)] with the bits [false, false]
C14_DepthTwoScenario ==
    d_pc = "path"
        => /\ d_tree[1] = <<d_a, d_b, 0, 0>>
           /\ d_tree[Len(d_tree)] =
                  <<Hash(<<Hash(<<d_a, d_b>>), Hash(<<0, 0>>)>>)>>
           /\ d_path.path = <<d_b, Hash(<<0, 0>>)>>
           /\ d_path.indices = <<FALSE, FALSE>>

\* the path of leaf 0 was taken for two different nonzero commitments
C14_Witness ==
    /\ d_pc = "path"
    /\ d_a # d_b
    /\ d_a > 0
    /\ d_b > 0

\* C15: for distinct field elements a and b, hash_pair(a, b) differs from
\* hash_pair(b, a)
C15_SwapNeverCollides ==
    ("shield" \in DOMAIN h_out /\ Len(h_inputs) = 2
        /\ h_inputs[1] < FIELD_MODULUS /\ h_inputs[2] < FIELD_MODULUS
        /\ h_inputs[1] # h_inputs[2])
        => h_out["shield"] # poseidon_hash_pair(h_inputs[2], h_inputs[1])

\* the field elements
FieldElements == 0..(FIELD_MODULUS - 1)

\* C16: poseidon_hash returns a value in [0, modulus) for every list of
\* non-negative inputs, the empty list and inputs >= the modulus included
C16_HashInRange ==
    \A f \in DOMAIN h_out : h_out[f] \in FieldElements

\* the hash of a list of two or three inputs, none below the modulus, was
\* computed by shield.py
C16_Witness ==
    /\ "shield" \in DOMAIN h_out
    /\ Len(h_inputs) >= 2
    /\ \A i \in 1..Len(h_inputs) : h_inputs[i] >= FIELD_MODULUS

\* C16 for the runs: every commitment, nullifier and root computed, and every
\* value encoded for the ledger or the note, is in [0, modulus)
C16_SystemValuesInRange ==
    /\ \A r \in ShieldRuns :
          /\ s_commitment[r] \in FieldElements
          /\ s_root[r] \in FieldElements
    /\ \A u \in UnshieldRuns :
          /\ u_root[u] \in FieldElements
          /\ u_nullifier[u] \in FieldElements
          /\ \A k \in 1..Len(u_path[u].path) : u_path[u].path[k] \in FieldElements
    /\ \A k \in 1..Len(l_commitments) :
          IntFromBytesBE(BytesFromHex(l_commitments[k].digits)) \in FieldElements
    /\ \A k \in 1..Len(l_root) :
          IntFromBytesBE(BytesFromHex(l_root[k].digits)) \in FieldElements
    /\ \A n \in l_spent : IntFromBytesBE(BytesFromHex(n.digits)) \in FieldElements
    /\ \A k \in DOMAIN notes :
          /\ NoteField(notes[k].secret) \in FieldElements
          /\ NoteField(notes[k].blinding) \in FieldElements
          /\ IntFromBytesBE(BytesFromHex(notes[k].commitment.digits)) \in FieldElements
          /\ IntFromBytesBE(BytesFromHex(notes[k].merkle_root.digits)) \in FieldElements
          /\ NoteField(notes[k].nullifier) \in FieldElements

\* C16 for the encoders: fr_to_hex_le and fr_to_h256 encode a value in
\* [0, modulus) whatever integer they are given
C16_EncodingsInRange ==
    /\ c_src = "fr_to_hex_le"
          => IntFromBytesLE(BytesFromHex(c_hex.digits)) \in FieldElements
    /\ c_src = "fr_to_h256"
          => IntFromBytesBE(BytesFromHex(c_hex.digits)) \in FieldElements

\* C16 for the trees: every node above the leaf level and every root is in
\* [0, modulus)
C16_NodesInRange ==
    /\ m_full_root \in FieldElements
    /\ m_inc_root \in FieldElements
    /\ \A L \in 2..Len(m_tree) :
          \A i \in 1..Len(m_tree[L]) : m_tree[L][i] \in FieldElements

\* h is the big-endian BYTES_LEN-byte hex string of v with the 0x marker
IsBigEndianH256(h, v) ==
    /\ h.prefix
    /\ Len(h.digits) = 2 * BYTES_LEN
    /\ IntFromBytesBE(BytesFromHex(h.digits)) = v

\* h is the little-endian BYTES_LEN-byte hex string of v, without marker
IsLittleEndianHex(h, v) ==
    /\ ~h.prefix
    /\ Len(h.digits) = 2 * BYTES_LEN
    /\ IntFromBytesLE(BytesFromHex(h.digits)) = v

\* C17: the siblings and the root of the merkle path file that
\* get_merkle_path.py writes for the proving CLI are little-endian hex strings
C17_PathFileLittleEndian ==
    m_pc = "gmp_path"
        => /\ IsLittleEndianHex(m_out[1].root, m_tree[Len(m_tree)][1])
           /\ Len(m_out[1].path) = Len(m_path.path)
           /\ \A k \in 1..Len(m_path.path) :
                 IsLittleEndianHex(m_out[1].path[k], m_path.path[k])

\* C17 for unshield.py and shield.py: the values handed to the ledger are
\* big-endian with the marker, those handed to the proving CLI little-endian
C17_RunEncodings ==
    /\ \A k \in 1..Len(l_commitments) :
          /\ l_commitments[k].prefix
          /\ Len(l_commitments[k].digits) = 2 * BYTES_LEN
    /\ \A r \in ShieldRuns :
          s_pc[r] \in {"save", "done"}
              => \E k \in 1..Len(l_commitments) :
                    IsBigEndianH256(l_commitments[k], s_commitment[r])
    /\ \A k \in 1..Len(l_root) :
          /\ l_root[k].prefix
          /\ Len(l_root[k].digits) = 2 * BYTES_LEN
          /\ \/ \E r \in ShieldRuns : IsBigEndianH256(l_root[k], s_root[r])
             \/ l_root[k] \in {l.root[1] : l \in {i \in InitialLedgers : i.root # <<>>}}
    /\ \A u \in UnshieldRuns :
          /\ u_tx[u] # <<>>
                => /\ IsBigEndianH256(u_tx[u][1].nullifier, u_nullifier[u])
                   /\ IsBigEndianH256(u_tx[u][1].root, u_root[u])
          /\ (u_tmp[u] # "none" /\ u_tmp[u] # "deleted")
                => /\ IsLittleEndianHex(u_tmp[u][1].root, u_root[u])
                   /\ \A k \in 1..Len(u_path[u].path) :
                         IsLittleEndianHex(u_tmp[u][1].path[k], u_path[u].path[k])
                   /\ IsLittleEndianHex(prove_unshield_args(u).secret, u_secret[u])
                   /\ IsLittleEndianHex(prove_unshield_args(u).blinding,
                                        u_blinding[u])

\* C18: every run of become_validator.py that printed the success banner
\* has the account's session keys registered on-chain
C18_BannerMeansValidator ==
    v_pc = "done" => v_next_keys

\* C18 for the runs connected to the local node
C18_LocalBannerMeansValidator ==
    (v_pc = "done" /\ v_is_local) => v_next_keys

\* C19: a tree built over at most 2^TREE_DEPTH leaves has TREE_DEPTH + 1
\* levels, level L has 2^(TREE_DEPTH - L) nodes, level 0 is the leaves
\* followed by zeros, and every node above is the hash of its two children
C19_TreeStructure ==
    (m_pc \in {"tree", "path", "gmp_path"} /\ Len(MAllLeaves) <= 2 ^ TREE_DEPTH)
        => /\ Len(m_tree) = TREE_DEPTH + 1
           /\ \A L \in 0..TREE_DEPTH : Len(m_tree[L + 1]) = 2 ^ (TREE_DEPTH - L)
           /\ \A i \in 1..(2 ^ TREE_DEPTH) :
                 m_tree[1][i] = IF i <= Len(MAllLeaves) THEN MAllLeaves[i] ELSE 0
           /\ \A L \in 1..TREE_DEPTH :
                 \A i \in 0..(2 ^ (TREE_DEPTH - L) - 1) :
                    m_tree[L + 1][i + 1] =
                        Hash(<<m_tree[L][2 * i + 1], m_tree[L][2 * i + 2]>>)

\* a tree was built over an odd number of leaves, the last of them nonzero
C19_Witness ==
    /\ m_pc = "tree"
    /\ Len(MAllLeaves) = 5
    /\ m_new # 0
    /\ m_existing[1] # 0

RECURSIVE SubtreeRoot(_, _, _)
\* the root of the complete subtree of height L over the 2^L leaves from the
\* 0-based index start on
SubtreeRoot(leaves, start, L) ==
    IF L = 0 THEN leaves[start + 1]
    ELSE Hash(<<SubtreeRoot(leaves, start, L - 1),
                SubtreeRoot(leaves, start + 2 ^ (L - 1), L - 1)>>)

\* bit L of n
BitOf(n, L) == (n \div (2 ^ L)) % 2

\* C20: after the frontier loop has inserted the first n leaves, for every
\* level L at which bit L of n is 1, filled_subtrees[L] is the root of the
\* complete subtree over the 2^L leaves from index n - (n mod 2^(L+1)) on
C20_FrontierHoldsLeftSubtrees ==
    (m_pc = "loop" /\ m_idx <= 2 ^ TREE_DEPTH)
        => \A L \in 0..(TREE_DEPTH - 1) :
              BitOf(m_idx, L) = 1
                  => m_filled[L + 1] =
                        SubtreeRoot(MAllLeaves, m_idx - (m_idx % (2 ^ (L + 1))), L)

\* the loop has inserted seven leaves, the first and the last nonzero: every
\* level of the frontier holds a completed subtree
C20_Witness ==
    /\ m_pc = "loop"
    /\ m_idx = 7
    /\ MAllLeaves[1] # 0
    /\ MAllLeaves[7] # 0

RECURSIVE TrailingOnes(_)
\* the number of trailing one bits of n
TrailingOnes(n) == IF n % 2 = 0 THEN 0 ELSE 1 + TrailingOnes(n \div 2)

\* C21: the insertion of the leaf at index n leaves every frontier slot
\* unchanged but the one at level t, the number of trailing one bits of n;
\* for t >= TREE_DEPTH it leaves them all unchanged
C21_InsertionWritesOneSlot ==
    [][(m_pc = "loop" /\ m_idx' = m_idx + 1)
          => \A L \in 0..(TREE_DEPTH - 1) :
                L # TrailingOnes(m_idx) => m_filled'[L + 1] = m_filled[L + 1]]_vars

\* the leaf at index 7, whose index has three trailing one bits, has been
\* inserted after leaves that filled every slot with a nonzero value
C21_Witness ==
    /\ m_pc = "loop"
    /\ m_idx = 2 ^ TREE_DEPTH
    /\ \A L \in 1..TREE_DEPTH : m_filled[L] # 0
    /\ MAllLeaves[2 ^ TREE_DEPTH] # MAllLeaves[2 ^ TREE_DEPTH - 1]

\* the receipt of run r reported success
ReceiptSuccess(r) == s_receipt[r] = <<[is_success |-> TRUE]>>

\* C22: a step that writes a note file is the step of a shield run whose
\* receipt was a success; a run whose submission raised or whose receipt was
\* not a success leaves the submission for an exit without a note written,
\* and stays there
C22_NoteOnlyAfterSuccess ==
    [][/\ notes' # notes
            => \E r \in ShieldRuns :
                  /\ s_pc[r] = "save"
                  /\ s_pc'[r] = "done"
                  /\ ReceiptSuccess(r)
                  /\ notes' = Put(notes, Len(s_existing[r]), note_data(r))
       /\ \A r \in ShieldRuns :
             /\ (s_pc[r] = "submit" /\ s_pc'[r] # "submit"
                     /\ s_receipt'[r] # <<[is_success |-> TRUE]>>)
                   => (s_pc'[r] = "exit1_tx" /\ notes' = notes)
             /\ s_pc[r] \in {"exit1_start", "exit1_tx"}
                   => s_pc'[r] = s_pc[r]
             /\ s_pc'[r] \in {"save", "done"}
                   => s_receipt'[r] = <<[is_success |-> TRUE]>>]_vars

\* one run has written its note after a successful receipt, the other has
\* exited after its submission raised, and one note file exists
C22_Witness ==
    \E r1, r2 \in ShieldRuns :
       /\ s_pc[r1] = "done"
       /\ ReceiptSuccess(r1)
       /\ s_pc[r2] = "exit1_tx"
       /\ s_receipt[r2] = <<>>
       /\ Cardinality(DOMAIN notes) = 1

\* a run has exited after a receipt that was not a success, and no note file
\* exists
C22_WitnessFailedReceipt ==
    \E r \in ShieldRuns :
       /\ s_pc[r] = "exit1_tx"
       /\ s_receipt[r] = <<[is_success |-> FALSE]>>
       /\ DOMAIN notes = {}

\* the proving service of run u returned status 0 and output holding a
\* proof line
ProverSucceeded(u) ==
    /\ u_result[u] # <<>>
    /\ u_result[u][1].returncode = 0
    /\ \E k \in 1..Len(u_result[u][1].stdout) :
          \E i \in 1..Len(u_result[u][1].stdout[k]) :
             u_result[u][1].stdout[k][i] = "proof: 0x"

\* C23: a run that is about to submit or has submitted an unshield call had
\* status 0 and a proof line from the proving service; a run whose proving
\* service returned a nonzero status or no proof line has exited with an
\* error without a submission; and once the proving service has been called
\* (whether it returned, failed or timed out) the merkle path file is deleted
C23_SubmitOnlyWithProof ==
    \A u \in UnshieldRuns :
       /\ (u_tx[u] # <<>> \/ u_pc[u] \in {"submit", "done", "exit1_tx"})
             => ProverSucceeded(u)
       /\ (u_result[u] # <<>> /\ ~ProverSucceeded(u))
             => (u_pc[u] = "exit1_prover" /\ u_tx[u] = <<>>)
       /\ u_zk_calls[u] > 0 => u_tmp[u] = "deleted"
       /\ u_pc[u] # "prove" => u_tmp[u] \in {"none", "deleted"}

\* one run has submitted its unshield call after a proof, the other has
\* exited after status 0 with output that holds no proof line, and both
\* merkle path files are deleted
C23_Witness ==
    \E u1, u2 \in UnshieldRuns :
       /\ u_tx[u1] # <<>>
       /\ ProverSucceeded(u1)
       /\ u_tmp[u1] = "deleted"
       /\ u_pc[u2] = "exit1_prover"
       /\ u_result[u2] # <<>>
       /\ u_result[u2][1].returncode = 0
       /\ u_tmp[u2] = "deleted"

\* a run has stopped on the timeout of the proving service, with its merkle
\* path file deleted
C23_WitnessTimeout ==
    \E u \in UnshieldRuns :
       /\ u_pc[u] = "crash"
       /\ u_zk_calls[u] = 1
       /\ u_result[u] = <<>>
       /\ u_tmp[u] = "deleted"

\* the shield runs whose transaction the ledger accepted
AcceptedShields == {r \in ShieldRuns : s_pc[r] \in {"save", "done"}}

\* the root of the full tree over the first n leaves of the ledger
LedgerRootAfter(n) ==
    compute_merkle_root([i \in 1..(n - 1) |-> h256_to_fr(l_commitments[i]).val],
                        h256_to_fr(l_commitments[n]).val, n - 1)

\* C24, the position: the leaf_index of an accepted run is the position at
\* which the ledger stored the run's commitment
C24_LeafIndexIsPosition ==
    \A r \in AcceptedShields :
       /\ note_data(r).leaf_index < Len(l_commitments)
       /\ l_commitments[note_data(r).leaf_index + 1] = note_data(r).commitment

\* C24, the root: the merkle_root of an accepted run is the root of the
\* ledger's leaves up to and including the run's own
C24_RootIsLedgerRoot ==
    \A r \in AcceptedShields :
       note_data(r).leaf_index < Len(l_commitments)
          => note_data(r).merkle_root =
                fr_to_h256(LedgerRootAfter(note_data(r).leaf_index + 1))

\* C24, the distinctness: two accepted runs record different leaf_index
C24_DistinctLeafIndex ==
    \A r1, r2 \in AcceptedShields :
       r1 # r2 => note_data(r1).leaf_index # note_data(r2).leaf_index

\* C24: for every accepted shield run the leaf_index is the ledger's position
\* of the run's commitment, the merkle_root is the ledger's root after that
\* insertion, and no two accepted runs record the same leaf_index
C24_NoteMatchesLedger ==
    /\ C24_LeafIndexIsPosition
    /\ C24_RootIsLedgerRoot
    /\ C24_DistinctLeafIndex

\* C24, the root, for ledgers of at most DIRECT_MAX leaves (where the client
\* computes its root by the full rebuild)
C24_RootIsLedgerRootDirect ==
    \A r \in AcceptedShields :
       Len(l_commitments) <= DIRECT_MAX
          => /\ note_data(r).leaf_index < Len(l_commitments)
             /\ note_data(r).merkle_root =
                   fr_to_h256(LedgerRootAfter(note_data(r).leaf_index + 1))

============================================================================
